---- MODULE Spec2Model ----
(***************************************************************************)
(* NarrowMind S2: the stemmer (stem.js) and the sentence-ranking model     *)
(* (model.js, class NarrowMindModel).                                      *)
(*                                                                         *)
(* A JavaScript string is a sequence of one-character strings.  A          *)
(* JavaScript value that may or may not be a string (an argument at the    *)
(* public entry points) is a record [type, str, truthy].                   *)
(*                                                                         *)
(* JavaScript numbers are fixed-point integers: a similarity is counted in *)
(* units of 1/Scale, an IDF in units of 1/IdfScale, a weight in units of   *)
(* 1/100, a combined score in units of 1/(Scale*Scale).                    *)
(***************************************************************************)
EXTENDS Integers, Sequences, FiniteSets, TLC

\* ------------------------------------------------------------------ bounds
Scale == 1000
IdfScale == 100
LnTerms == 12
MaxTopN == 2
MaxWordLen == 5

\* -------------------------------------------------------------- characters
LowerLetters == <<"a", "b", "c", "d", "e", "f", "g", "h", "i", "j", "k", "l", "m", "n", "o", "p", "q", "r", "s", "t", "u", "v", "w", "x", "y", "z">>
UpperLetters == <<"A", "B", "C", "D", "E", "F", "G", "H", "I", "J", "K", "L", "M", "N", "O", "P", "Q", "R", "S", "T", "U", "V", "W", "X", "Y", "Z">>
Digits == <<"0", "1", "2", "3", "4", "5", "6", "7", "8", "9">>

Range(s) == {s[i] : i \in 1..Len(s)}

\* an array given element by element, as a value
array(f) == f \o <<>>

Max(a, b) == IF a >= b THEN a ELSE b
Min(a, b) == IF a <= b THEN a ELSE b

\* Array.prototype.flat on a list of lists
RECURSIVE flatten(_)
flatten(lists) ==
    IF lists = <<>> THEN <<>>
    ELSE IF Len(lists) = 1 THEN lists[1]
    ELSE flatten(SubSeq(lists, 1, Len(lists) \div 2))
             \o flatten(SubSeq(lists, Len(lists) \div 2 + 1, Len(lists)))

\* code units outside ASCII, written by their code points: the capital I with
\* a dot above, a letter, and the combining dot above, a mark
DottedCapitalI == "U+0130"
CombiningDot == "U+0307"

\* the lower-case letter of every upper-case letter
lowerOf == [c \in Range(UpperLetters) |->
              LowerLetters[CHOOSE i \in 1..Len(UpperLetters) : UpperLetters[i] = c]]

\* String.prototype.toLowerCase on one character
toLowerChar(c) == IF c \in DOMAIN lowerOf THEN lowerOf[c] ELSE c

\* String.prototype.toLowerCase: character by character, but U+0130 becomes the
\* two code units "i", U+0307
toLowerCase(s) ==
    IF \A i \in 1..Len(s) : s[i] # DottedCapitalI
    THEN array([i \in 1..Len(s) |-> toLowerChar(s[i])])
    ELSE flatten(array([i \in 1..Len(s) |->
                           IF s[i] = DottedCapitalI THEN <<"i", CombiningDot>>
                           ELSE <<toLowerChar(s[i])>>]))

\* String.prototype.endsWith
endsWith(s, suffix) ==
    /\ Len(suffix) <= Len(s)
    /\ SubSeq(s, Len(s) - Len(suffix) + 1, Len(s)) = suffix

\* String.prototype.slice(0, -n)
sliceEnd(s, n) == SubSeq(s, 1, Max(Len(s) - n, 0))

\* ------------------------------------------------------------------ stem.js
isVowel(char) == char \in Range(<<"a", "e", "i", "o", "u">>)

isConsonant(char) == char \in Range(<<"b", "c", "d", "f", "g", "h", "j", "k", "l", "m", "n", "p", "q", "r", "s", "t", "v", "w", "x", "y", "z">>)

minStemLength == 2

longSuffixes ==
    << <<"a", "t", "i", "o", "n", "a", "l">>, <<"i", "z", "a", "t", "i", "o", "n">>, <<"t", "i", "o", "n", "a", "l">>, <<"o", "u", "s", "n", "e", "s", "s">>, <<"i", "v", "e", "n", "e", "s", "s">>, <<"f", "u", "l", "n", "e", "s", "s">>,
       <<"o", "u", "s", "l", "i">>, <<"a", "l", "i", "s", "m">>, <<"a", "l", "i", "t", "i">>, <<"a", "t", "i", "o", "n">>, <<"a", "t", "o", "r">>, <<"e", "m", "e", "n", "t">>,
       <<"m", "e", "n", "t">>, <<"a", "b", "l", "e">>, <<"i", "b", "l", "e">>, <<"a", "n", "c", "e">>, <<"e", "n", "c", "e">>, <<"n", "e", "s", "s">>,
       <<"t", "i", "o", "n">>, <<"s", "i", "o", "n">>, <<"i", "n", "g">>, <<"e", "d">>, <<"e", "r">>, <<"e", "s", "t">>, <<"l", "y">>, <<"f", "u", "l">>, <<"l", "e", "s", "s">> >>

\* the special cases checked before any suffix rule
stemSpecial(lowerToken) ==
    IF lowerToken \in {<<"w", "a", "s">>, <<"i", "s">>, <<"a", "r", "e">>} THEN lowerToken
    ELSE IF lowerToken \in {<<"h", "a", "s">>, <<"h", "a", "d">>, <<"h", "a", "v", "e">>} THEN <<"h", "a", "v">>
    ELSE <<>>

isSpecial(lowerToken) ==
    lowerToken \in {<<"w", "a", "s">>, <<"i", "s">>, <<"a", "r", "e">>, <<"h", "a", "s">>, <<"h", "a", "d">>, <<"h", "a", "v", "e">>}

\* the body of the suffix loop once a suffix matched with a long enough residual
stemAfterSuffix(suffix, st) ==
    IF /\ suffix \in {<<"e", "d">>, <<"i", "n", "g">>, <<"e", "r">>, <<"e", "s", "t">>}
       /\ Len(st) > 1
       /\ endsWith(st, <<"e">>)
    THEN sliceEnd(st, 1)
    ELSE IF /\ suffix \in {<<"e", "d">>, <<"i", "n", "g">>}
            /\ Len(st) > 2
            /\ isConsonant(st[Len(st)])
            /\ st[Len(st)] = st[Len(st) - 1]
            /\ ~isVowel(st[Len(st) - 2])
    THEN sliceEnd(st, 1)
    ELSE st

\* stemPlural with no plural rule at all
stemPluralKept(lowerToken) == lowerToken

\* stemPlural with the 'es' rule applied from four characters on
stemPluralEager(lowerToken) ==
    IF endsWith(lowerToken, <<"i", "e", "s">>) /\ Len(lowerToken) > 4
    THEN sliceEnd(lowerToken, 3) \o <<"y">>
    ELSE IF endsWith(lowerToken, <<"e", "s">>) /\ Len(lowerToken) > 3
    THEN sliceEnd(lowerToken, 2)
    ELSE IF /\ endsWith(lowerToken, <<"s">>)
            /\ Len(lowerToken) > 3
            /\ lowerToken[Len(lowerToken) - 1] # "s"
    THEN sliceEnd(lowerToken, 1)
    ELSE lowerToken

\* step 2: plural forms and simple suffixes
stemPlural(lowerToken) ==
    IF endsWith(lowerToken, <<"i", "e", "s">>) /\ Len(lowerToken) > 4
    THEN sliceEnd(lowerToken, 3) \o <<"y">>
    ELSE IF endsWith(lowerToken, <<"e", "s">>) /\ Len(lowerToken) > 4
    THEN sliceEnd(lowerToken, 2)
    ELSE IF /\ endsWith(lowerToken, <<"s">>)
            /\ Len(lowerToken) > 3
            /\ lowerToken[Len(lowerToken) - 1] # "s"
    THEN sliceEnd(lowerToken, 1)
    ELSE lowerToken

\* the loop over longSuffixes with the list walked from its end
matchingSuffixLast(lowerToken) ==
    LET matching == {i \in 1..Len(longSuffixes) :
                        /\ endsWith(lowerToken, longSuffixes[i])
                        /\ Len(sliceEnd(lowerToken, Len(longSuffixes[i]))) >= minStemLength} IN
    IF matching = {} THEN 0
    ELSE CHOOSE i \in matching : \A k \in matching : i >= k

\* the loop over longSuffixes returns at the first suffix the token ends with
\* that leaves a residual of at least minStemLength: its index, 0 if there is none
matchingSuffix(lowerToken) ==
    LET matching == {i \in 1..Len(longSuffixes) :
                        /\ endsWith(lowerToken, longSuffixes[i])
                        /\ Len(sliceEnd(lowerToken, Len(longSuffixes[i]))) >= minStemLength} IN
    IF matching = {} THEN 0
    ELSE CHOOSE i \in matching : \A k \in matching : i <= k

\* stemSuffixes without the test on the length of the residual: the first
\* suffix the token ends with is stripped
stemSuffixesAnyResidual(lowerToken) ==
    LET ending == {i \in 1..Len(longSuffixes) : endsWith(lowerToken, longSuffixes[i])}
        stripped(i) == stemAfterSuffix(longSuffixes[i], sliceEnd(lowerToken, Len(longSuffixes[i]))) IN
    IF ending # {}
    THEN stripped(CHOOSE i \in ending : \A k \in ending : i <= k)
    ELSE stemPlural(lowerToken)

\* step 1: the loop over longSuffixes, falling through to step 2
stemSuffixes(lowerToken) ==
    LET i == matchingSuffix(lowerToken) IN
    IF i > 0
    THEN stemAfterSuffix(longSuffixes[i], sliceEnd(lowerToken, Len(longSuffixes[i])))
    ELSE stemPlural(lowerToken)

\* stem(token) for a string token
stem(token) ==
    IF token = <<>> \/ Len(token) < 3 THEN toLowerCase(token)
    ELSE LET lowerToken == toLowerCase(token) IN
         IF isSpecial(lowerToken) THEN stemSpecial(lowerToken)
         ELSE stemSuffixes(lowerToken)

\* ------------------------------------------------------- JavaScript values
\* an argument of a public entry point: a string, or undefined, null, a number,
\* an object; truthy is the value's truthiness (!value is its negation), str the
\* characters of the string, and of String(value) for another value
Str(s) == [type |-> "string", str |-> s, truthy |-> s # <<>>]
Undefined == [type |-> "undefined", str |-> <<"u", "n", "d", "e", "f", "i", "n", "e", "d">>, truthy |-> FALSE]
Null == [type |-> "object", str |-> <<"n", "u", "l", "l">>, truthy |-> FALSE]
Zero == [type |-> "number", str |-> <<"0">>, truthy |-> FALSE]
Five == [type |-> "number", str |-> <<"5">>, truthy |-> TRUE]
Obj == [type |-> "object", str |-> <<"[", "o", "b", "j", "e", "c", "t", " ", "O", "b", "j", "e", "c", "t", "]">>, truthy |-> TRUE]

\* stemValue with a short token returned as it is written
stemValueCased(v) ==
    IF ~v.truthy \/ Len(v.str) < 3 THEN v ELSE Str(stem(v.str))

\* stem(token) for undefined, null or a string: !token returns the token itself
stemValue(v) ==
    IF ~v.truthy THEN v
    ELSE IF Len(v.str) < 3 THEN Str(toLowerCase(v.str))
    ELSE Str(stem(v.str))

\* --------------------------------------------------- tokenizer and segmenter
\* [\p{L}\p{N}]
isLetterOrNumber(c) ==
    c \in Range(LowerLetters) \cup Range(UpperLetters) \cup Range(Digits) \cup {DottedCapitalI}

\* the class of the split in parseSentences: . ! ? , " : ; \n
isSentenceDelimiter(c) == c \in {".", "!", "?", ",", "\"", ":", ";", "\n"}

isWhitespace(c) == c \in {" ", "\n", "\t"}

\* the elements of list at the positions given, in order
kth(positions, k) == CHOOSE i \in positions : Cardinality({j \in positions : j < i}) = k - 1

pick(list, positions) == array([k \in 1..Cardinality(positions) |-> list[kth(positions, k)]])

\* String.prototype.trim
trim(s) ==
    LET kept == {i \in 1..Len(s) : ~isWhitespace(s[i])} IN
    IF kept = {} THEN <<>>
    ELSE SubSeq(s, CHOOSE i \in kept : \A k \in kept : i <= k,
                   CHOOSE i \in kept : \A k \in kept : i >= k)

\* text.split(/[C]+/).filter(Boolean), delims the positions of s that hold a
\* character of the class C: the maximal runs of characters outside C, in order
runs(s, delims) ==
    LET starts == {i \in 1..Len(s) : i \notin delims /\ (i = 1 \/ i - 1 \in delims)}
        endOf(i) == CHOOSE j \in i..Len(s) :
                       /\ \A k \in i..j : k \notin delims
                       /\ (j = Len(s) \/ j + 1 \in delims) IN
    array([k \in 1..Cardinality(starts) |-> SubSeq(s, kth(starts, k), endOf(kth(starts, k)))])

\* Array.prototype.filter(Boolean) on a list of strings
filterNonEmpty(list) == SelectSeq(list, LAMBDA piece : piece # <<>>)

\* isTokenDelimiter with the full stop taken as a character of a token
isTokenDelimiterKeepingStops(c) == ~isLetterOrNumber(c) /\ c # "."

isTokenDelimiter(c) == ~isLetterOrNumber(c)

\* parseTokens splitting String(text) whatever the type of text
parseTokensCoerced(text) ==
    LET trimmed == trim(text.str) IN
    runs(trimmed, {i \in 1..Len(trimmed) : isTokenDelimiter(trimmed[i])})

parseTokens(text) ==
    IF ~text.truthy \/ text.type # "string" THEN <<>>
    ELSE LET trimmed == trim(text.str) IN
         runs(trimmed, {i \in 1..Len(trimmed) : isTokenDelimiter(trimmed[i])})

\* split(/[.!?,"":;\n]+/).map(s => s.trim()).filter(Boolean): an empty piece of the
\* split stays empty under trim and is dropped with the pieces trim empties
parseSentences(text) ==
    IF ~text.truthy \/ text.type # "string" THEN <<>>
    ELSE LET pieces == runs(text.str, {i \in 1..Len(text.str) : isSentenceDelimiter(text.str[i])}) IN
         filterNonEmpty(array([i \in 1..Len(pieces) |-> trim(pieces[i])]))

\* filterTokens: fillers is the model's fillerWords
filterTokens(tokens, fillers) ==
    IF tokens = <<>> THEN <<>>
    ELSE SelectSeq(tokens, LAMBDA token : toLowerCase(token) \notin fillers)

parseTokensStemmed(text, filterFillers, fillers) ==
    LET tokens == IF filterFillers THEN filterTokens(parseTokens(text), fillers)
                  ELSE parseTokens(text) IN
    array([i \in 1..Len(tokens) |-> stem(toLowerCase(tokens[i]))])

\* the list itself, repeated elements kept
uniqueKeepingRepeats(list) == list

\* [...new Set(list)]: the distinct elements in order of first occurrence
unique(list) == pick(list, {i \in 1..Len(list) : \A j \in 1..i - 1 : list[j] # list[i]})

\* ----------------------------------------------------------------- numbers
\* Math.sqrt on a non-negative integer, rounded down
RECURSIVE sqrtSearch(_, _, _)
sqrtSearch(x, lo, hi) ==
    IF lo >= hi THEN lo
    ELSE LET mid == (lo + hi + 1) \div 2 IN
         IF mid * mid <= x THEN sqrtSearch(x, mid, hi) ELSE sqrtSearch(x, lo, mid - 1)

sqrt(x) == sqrtSearch(x, 0, Min(x, 46340))

LnScale == 10000

\* n / d in units of 1/LnScale, for 0 <= n <= d, without leaving 32 bits
ratio(n, d) ==
    IF d > 20000 THEN (n * 100) \div (d \div 100) ELSE (n * LnScale) \div d

\* the sum y + y^3/3 + y^5/5 + ... of LnTerms terms, y in units of 1/LnScale;
\* power is y^(2k+1), k the index of the term
RECURSIVE atanhSeries(_, _, _)
atanhSeries(y2, power, k) ==
    IF k >= LnTerms \/ power = 0 THEN 0
    ELSE power \div (2 * k + 1) + atanhSeries(y2, (power * y2) \div LnScale, k + 1)

\* Math.log(p / q) for integers p >= q > 0, in units of 1/LnScale:
\* ln x = 2 atanh((x - 1) / (x + 1))
lnUp(p, q) ==
    LET y == ratio(p - q, p + q) IN
    2 * atanhSeries((y * y) \div LnScale, y, 0)

\* Math.log(p / q) for integers p, q > 0, in units of 1/LnScale
ln(p, q) == IF p >= q THEN lnUp(p, q) ELSE 0 - lnUp(q, p)

\* Math.log2(p / q) for integers p, q > 0, in units of 1/Scale
log2(p, q) == (ln(p, q) * Scale) \div ln(2, 1)

RECURSIVE sum(_)
sum(list) == IF list = <<>> THEN 0 ELSE Head(list) + sum(Tail(list))

\* the number of elements of list equal to x
count(x, list) == Cardinality({i \in 1..Len(list) : list[i] = x})

\* ------------------------------------------------------------- TF and IDF
\* calculateTF, in units of 1/Scale
calculateTF(token, wordList) ==
    IF wordList = <<>> THEN 0
    ELSE (count(token, wordList) * Scale) \div Len(wordList)

\* the document frequency counting every occurrence of the token
documentFrequencyOccurrences(token, documents) ==
    sum(array([i \in 1..Len(documents) |-> count(token, documents[i])]))

\* the document frequency of calculateIDF: documents.filter(doc => doc.includes(token)).length
documentFrequency(token, documents) ==
    Cardinality({i \in 1..Len(documents) : token \in Range(documents[i])})

\* calculateIDF without the guard on an empty document list
calculateIDFUnguarded(token, documents) ==
    LET N == Len(documents)
        df == documentFrequency(token, documents) IN
    (ln(N + 1, df + 1) * IdfScale) \div LnScale + IdfScale

\* calculateIDF, in units of 1/IdfScale
calculateIDF(token, documents) ==
    IF documents = <<>> THEN 0
    ELSE LET N == Len(documents)
             df == documentFrequency(token, documents) IN
         (ln(N + 1, df + 1) * IdfScale) \div LnScale + IdfScale

\* Map.prototype.set on a map held as a function
mapSet(map, key, value) == [k \in DOMAIN map \cup {key} |-> IF k = key THEN value ELSE map[k]]

emptyMap == [k \in {} |-> 0]

\* precomputeIDF: one entry per distinct stemmed token
precomputeIDF(allStemmed, documents) ==
    [token \in Range(unique(allStemmed)) |-> calculateIDF(token, documents)]

\* ------------------------------------------------ co-occurrence matrix
\* the inner loop of buildCoOccurrenceMatrix counting a pair of a sentence for
\* its first word only
RECURSIVE coOccurrenceRowForward(_, _, _, _)
coOccurrenceRowForward(row, uniqueTokens, i, j) ==
    IF j > Len(uniqueTokens) THEN row
    ELSE IF i < j
    THEN LET word2 == uniqueTokens[j]
             currentCount == IF word2 \in DOMAIN row THEN row[word2] ELSE 0 IN
         coOccurrenceRowForward(mapSet(row, word2, currentCount + 1), uniqueTokens, i, j + 1)
    ELSE coOccurrenceRowForward(row, uniqueTokens, i, j + 1)

\* the inner loop of buildCoOccurrenceMatrix over j, for word1 = uniqueTokens[i]
RECURSIVE coOccurrenceRow(_, _, _, _)
coOccurrenceRow(row, uniqueTokens, i, j) ==
    IF j > Len(uniqueTokens) THEN row
    ELSE IF i # j
    THEN LET word2 == uniqueTokens[j]
             currentCount == IF word2 \in DOMAIN row THEN row[word2] ELSE 0 IN
         coOccurrenceRow(mapSet(row, word2, currentCount + 1), uniqueTokens, i, j + 1)
    ELSE coOccurrenceRow(row, uniqueTokens, i, j + 1)

\* the loop of buildCoOccurrenceMatrix over i, for one sentence
RECURSIVE coOccurrenceSentence(_, _, _)
coOccurrenceSentence(matrix, uniqueTokens, i) ==
    IF i > Len(uniqueTokens) THEN matrix
    ELSE LET word1 == uniqueTokens[i]
             row == IF word1 \in DOMAIN matrix THEN matrix[word1] ELSE emptyMap IN
         coOccurrenceSentence(
             mapSet(matrix, word1, coOccurrenceRow(row, uniqueTokens, i, 1)),
             uniqueTokens, i + 1)

\* the loop of buildCoOccurrenceMatrix over the sentences, from document d on
RECURSIVE coOccurrenceFrom(_, _, _)
coOccurrenceFrom(matrix, documents, d) ==
    IF d > Len(documents) THEN matrix
    ELSE coOccurrenceFrom(coOccurrenceSentence(matrix, unique(documents[d]), 1),
                          documents, d + 1)

buildCoOccurrenceMatrix(documents) == coOccurrenceFrom(emptyMap, documents, 1)

\* ---------------------------------------------------------------- the model
VARIABLES
    rawData,             \* this.rawData: the corpus text, a JavaScript value
    fillersFile,         \* the content of ./fillers.json as loadFillerWords finds it
    tokens,              \* this.tokens
    sentences,           \* this.sentences
    fillerWords,         \* this.fillerWords
    filteredTokens,      \* this.filteredTokens
    corpusDocs,          \* this.corpusDocs
    stemmedTokens,       \* this.stemmedTokens
    idfCache,            \* this.idfCache
    coOccurrenceMatrix,  \* this.coOccurrenceMatrix
    call,                \* the last call made: its name and arguments
    ret                  \* what the last call returned

index == <<rawData, fillersFile, tokens, sentences, fillerWords, filteredTokens,
           corpusDocs, stemmedTokens, coOccurrenceMatrix>>

vars == <<index, idfCache, call, ret>>

\* JSON.parse(fillersData) when it is an array
Arr(items) == [type |-> "array", items |-> items]

\* loadFillerWords keeping the strings of a list and passing over its other
\* elements
loadFillerWordsSkipping(file) ==
    IF ~file.ok THEN {}
    ELSE IF file.json.type # "array" THEN {}
    ELSE {toLowerCase(file.json.items[i].str) :
              i \in {i \in 1..Len(file.json.items) : file.json.items[i].type = "string"}}

\* loadFillerWords: file is [ok, json]; ok is FALSE when readFileSync or
\* JSON.parse throws and json is the value parsed otherwise.  fillers.map throws
\* when json is no array and word.toLowerCase throws on an element that is no
\* string; the catch block returns new Set() for every one of these
loadFillerWords(file) ==
    IF ~file.ok THEN {}
    ELSE IF file.json.type # "array" THEN {}
    ELSE IF \E i \in 1..Len(file.json.items) : file.json.items[i].type # "string" THEN {}
    ELSE {toLowerCase(file.json.items[i].str) : i \in 1..Len(file.json.items)}

\* ------------------------------------------------------------- the IDF cache
\* getIDF starting the cache anew on a miss: the entries before are lost
getIDFEvicting(cache, token) ==
    IF token \in DOMAIN cache
    THEN [value |-> cache[token], cache |-> cache]
    ELSE LET idf == calculateIDF(token, corpusDocs) IN
         [value |-> idf, cache |-> mapSet(emptyMap, token, idf)]

\* getIDF on the cache given: the value returned and the cache afterwards
getIDF(cache, token) ==
    IF token \in DOMAIN cache
    THEN [value |-> cache[token], cache |-> cache]
    ELSE LET idf == calculateIDF(token, corpusDocs) IN
         [value |-> idf, cache |-> mapSet(cache, token, idf)]

\* getIDFs with a miss answered by 0 while the computed IDF goes to the cache
RECURSIVE getIDFsMissZero(_, _, _, _)
getIDFsMissZero(cache, vocab, i, values) ==
    IF i > Len(vocab) THEN [values |-> values, cache |-> cache]
    ELSE LET got == getIDF(cache, vocab[i]) IN
         getIDFsMissZero(got.cache, vocab, i + 1,
                         Append(values, IF vocab[i] \in DOMAIN cache THEN got.value ELSE 0))

\* vocab.map(token => getIDF(token)), from position i on: the values and the
\* cache afterwards
RECURSIVE getIDFs(_, _, _, _)
getIDFs(cache, vocab, i, values) ==
    IF i > Len(vocab) THEN [values |-> values, cache |-> cache]
    ELSE LET got == getIDF(cache, vocab[i]) IN
         getIDFs(got.cache, vocab, i + 1, Append(values, got.value))

\* ------------------------------------------------------ character similarity
\* the row dp[i] of longestCommonSubsequence from the row before, prev = dp[i-1],
\* and c = str1[i-1].  The loop over j sets dp[i][j] to dp[i-1][j-1] + 1 on a
\* match and to max(dp[i-1][j], dp[i][j-1]) otherwise; unfolded over j that is
\* the largest of dp[i-1][j] and the dp[i-1][k-1] + 1 of the matches k <= j
lcsRow(prev, c, str2) ==
    array([p \in 1..Len(str2) + 1 |->
        LET j == p - 1
            matches == {prev[k] + 1 : k \in {k \in 1..j : str2[k] = c}} IN
        IF matches = {} THEN prev[p]
        ELSE Max(prev[p], CHOOSE v \in matches : \A u \in matches : v >= u)])

\* the row dp[i] of the table
RECURSIVE lcsRows(_, _, _)
lcsRows(str1, str2, i) ==
    IF i = 0 THEN array([j \in 1..Len(str2) + 1 |-> 0])
    ELSE lcsRow(lcsRows(str1, str2, i - 1), str1[i], str2)

longestCommonSubsequence(str1, str2) == lcsRows(str1, str2, Len(str1))[Len(str2) + 1]

\* calculateCharacterSimilarity without the test for identical strings, and with
\* the share of the characters outside the common subsequence in place of the
\* share inside it
calculateCharacterSimilarityDistance(str1, str2) ==
    IF str1 = <<>> \/ str2 = <<>> THEN 0
    ELSE LET s1 == toLowerCase(str1)
             s2 == toLowerCase(str2)
             lcsLength == longestCommonSubsequence(s1, s2)
             maxLength == Max(Len(s1), Len(s2)) IN
         IF maxLength = 0 THEN Scale ELSE ((maxLength - lcsLength) * Scale) \div maxLength

\* calculateCharacterSimilarity on two strings, in units of 1/Scale
calculateCharacterSimilarity(str1, str2) ==
    IF str1 = <<>> \/ str2 = <<>> THEN 0
    ELSE IF str1 = str2 THEN Scale
    ELSE LET s1 == toLowerCase(str1)
             s2 == toLowerCase(str2)
             lcsLength == longestCommonSubsequence(s1, s2)
             maxLength == Max(Len(s1), Len(s2)) IN
         IF maxLength = 0 THEN Scale ELSE (lcsLength * Scale) \div maxLength

\* ---------------------------------------------------------- TF-IDF similarity
\* a vector of the cosine: TF * IDF per vocabulary token, in units of 1/IdfScale
tfidfVector(vocab, words, idfs) ==
    array([i \in 1..Len(vocab) |-> (calculateTF(vocab[i], words) * idfs[i]) \div Scale])

dotProduct(vec1, vec2) == sum(array([i \in 1..Len(vec1) |-> vec1[i] * vec2[i]]))

\* dot / (mag1 * mag2) in units of 1/Scale, from dot and the squares of the
\* magnitudes: the square root of (dot / mag1^2) * (dot / mag2^2)
cosine(dot, magSq1, magSq2) ==
    IF magSq1 = 0 \/ magSq2 = 0 THEN 0
    ELSE sqrt(((dot * Scale) \div magSq1) * ((dot * Scale) \div magSq2))

\* the cosine of calculateTFIDFSimilarity from the stemmed tokens of the two
\* sentences.  The calls of getIDF for vec2 find every token of vocab in the
\* cache, put there by the calls for vec1: they return the same values and
\* leave the cache as it is
tfidfOfWords(cache, words1, words2) ==
    LET cosineOf(vec1, vec2) ==
            cosine(dotProduct(vec1, vec2), dotProduct(vec1, vec1), dotProduct(vec2, vec2))
        vectors(vocab, idfs) ==
            [value |-> cosineOf(tfidfVector(vocab, words1, idfs.values),
                                tfidfVector(vocab, words2, idfs.values)),
             cache |-> idfs.cache]
        overVocab(vocab) == vectors(vocab, getIDFs(cache, vocab, 1, <<>>)) IN
    IF words1 = <<>> \/ words2 = <<>> THEN [value |-> 0, cache |-> cache]
    ELSE overVocab(unique(words1 \o words2))

\* calculateTFIDFSimilarity with the filler filter applied to the first sentence only
calculateTFIDFSimilarityHalfFiltered(cache, sentence1, sentence2, filterFillers) ==
    tfidfOfWords(cache,
                 parseTokensStemmed(Str(sentence1), filterFillers, fillerWords),
                 parseTokensStemmed(Str(sentence2), FALSE, fillerWords))

\* calculateTFIDFSimilarity on two strings: the value, in units of 1/Scale, and
\* the cache afterwards
calculateTFIDFSimilarity(cache, sentence1, sentence2, filterFillers) ==
    tfidfOfWords(cache,
                 parseTokensStemmed(Str(sentence1), filterFillers, fillerWords),
                 parseTokensStemmed(Str(sentence2), filterFillers, fillerWords))

\* ------------------------------------------------- co-occurrence similarity
\* getCoOccurrenceCount: stems its arguments once more
getCoOccurrenceCount(word1, word2) ==
    LET countOf(stemmed1, stemmed2) ==
            IF stemmed1 \notin DOMAIN coOccurrenceMatrix THEN 0
            ELSE IF stemmed2 \in DOMAIN coOccurrenceMatrix[stemmed1]
            THEN coOccurrenceMatrix[stemmed1][stemmed2]
            ELSE 0 IN
    countOf(stem(toLowerCase(word1)), stem(toLowerCase(word2)))

\* the sentence indices whose document contains the token
sentencesWith(token) == {i \in 1..Len(corpusDocs) : token \in Range(corpusDocs[i])}

\* the 'jaccard' branch of calculateCoOccurrenceScore, in units of 1/Scale
jaccardScore(stemmed1, stemmed2) ==
    LET sizes(intersection, union) ==
            IF Cardinality(union) > 0
            THEN (Cardinality(intersection) * Scale) \div Cardinality(union)
            ELSE 0
        sets(word1Sentences, word2Sentences) ==
            sizes(word1Sentences \cap word2Sentences, word1Sentences \cup word2Sentences) IN
    sets(sentencesWith(stemmed1), sentencesWith(stemmed2))

\* the 'pmi' branch of calculateCoOccurrenceScore, in units of 1/Scale:
\* log2((pxy + 0.0001) / (px * py + 0.0001)), both sides multiplied by 10000 T^2
pmiScore(stemmed1, stemmed2) ==
    LET pmi(totalSentences, word1Count, word2Count, coOccurrenceCount) ==
            IF word1Count = 0 \/ word2Count = 0 \/ coOccurrenceCount = 0 THEN 0
            ELSE log2(10000 * coOccurrenceCount * totalSentences
                          + totalSentences * totalSentences,
                      10000 * word1Count * word2Count + totalSentences * totalSentences) IN
    pmi(Len(corpusDocs), Cardinality(sentencesWith(stemmed1)),
        Cardinality(sentencesWith(stemmed2)), getCoOccurrenceCount(stemmed1, stemmed2))

\* calculateCoOccurrenceScore testing the co-occurrence count before it
\* compares the two stems
calculateCoOccurrenceScoreCountFirst(word1, word2, method) ==
    LET score(stemmed1, stemmed2) ==
            IF getCoOccurrenceCount(stemmed1, stemmed2) = 0 THEN 0
            ELSE IF stemmed1 = stemmed2 THEN Scale
            ELSE IF method = "jaccard" THEN jaccardScore(stemmed1, stemmed2)
            ELSE IF method = "pmi" THEN pmiScore(stemmed1, stemmed2)
            ELSE 0 IN
    score(stem(toLowerCase(word1)), stem(toLowerCase(word2)))

\* calculateCoOccurrenceScore, in units of 1/Scale
calculateCoOccurrenceScore(word1, word2, method) ==
    LET score(stemmed1, stemmed2) ==
            IF stemmed1 = stemmed2 THEN Scale
            ELSE IF getCoOccurrenceCount(stemmed1, stemmed2) = 0 THEN 0
            ELSE IF method = "jaccard" THEN jaccardScore(stemmed1, stemmed2)
            ELSE IF method = "pmi" THEN pmiScore(stemmed1, stemmed2)
            ELSE 0 IN
    score(stem(toLowerCase(word1)), stem(toLowerCase(word2)))

\* calculateCoOccurrenceSimilarity returning the average score under 'pmi' as
\* it is, without the normalisation to 0..1
calculateCoOccurrenceSimilarityRaw(sentence1, sentence2, filterFillers, method) ==
    LET normalized(totalScore, pairCount) ==
            IF pairCount > 0 THEN totalScore \div pairCount ELSE 0
        average(scores) == normalized(sum(scores), Len(scores))
        pairs(uniqueWords1, uniqueWords2) ==
            average(array([k \in 1..Len(uniqueWords1) * Len(uniqueWords2) |->
                        calculateCoOccurrenceScore(
                            uniqueWords1[((k - 1) \div Len(uniqueWords2)) + 1],
                            uniqueWords2[((k - 1) % Len(uniqueWords2)) + 1], method)]))
        ofWords(words1, words2) ==
            IF words1 = <<>> \/ words2 = <<>> THEN 0
            ELSE pairs(unique(words1), unique(words2)) IN
    ofWords(parseTokensStemmed(Str(sentence1), filterFillers, fillerWords),
            parseTokensStemmed(Str(sentence2), filterFillers, fillerWords))

\* calculateCoOccurrenceSimilarity on two strings, in units of 1/Scale: scores
\* holds the score of every pair of the two loops, totalScore is its sum and
\* pairCount its length
calculateCoOccurrenceSimilarity(sentence1, sentence2, filterFillers, method) ==
    LET normalized(totalScore, pairCount) ==
            IF method = "pmi"
            THEN Max(0, Min(Scale, (totalScore \div pairCount + 5 * Scale) \div 10))
            ELSE IF pairCount > 0 THEN totalScore \div pairCount ELSE 0
        average(scores) == normalized(sum(scores), Len(scores))
        pairs(uniqueWords1, uniqueWords2) ==
            average(array([k \in 1..Len(uniqueWords1) * Len(uniqueWords2) |->
                        calculateCoOccurrenceScore(
                            uniqueWords1[((k - 1) \div Len(uniqueWords2)) + 1],
                            uniqueWords2[((k - 1) % Len(uniqueWords2)) + 1], method)]))
        ofWords(words1, words2) ==
            IF words1 = <<>> \/ words2 = <<>> THEN 0
            ELSE pairs(unique(words1), unique(words2)) IN
    ofWords(parseTokensStemmed(Str(sentence1), filterFillers, fillerWords),
            parseTokensStemmed(Str(sentence2), filterFillers, fillerWords))

\* ------------------------------------------------------ combined similarity
\* a weight is counted in hundredths: 95 is 0.95
\* calculateCombinedSimilarity adding the co-occurrence term whatever the sign
\* of its weight
calculateCombinedSimilarityAlways(cache, sentence1, sentence2, tfidfWeight, charWeight, filterFillers, coOccurrenceWeight, coOccurrenceMethod) ==
    LET normalized(score, totalWeight, tfidf) ==
            [value |-> IF totalWeight > 0 THEN (score * Scale) \div totalWeight ELSE 0,
             cache |-> tfidf.cache]
        combined(tfidf, charScore) ==
            normalized(tfidf.value * tfidfWeight + charScore * charWeight
                           + calculateCoOccurrenceSimilarity(
                                 sentence1, sentence2, filterFillers,
                                 coOccurrenceMethod) * coOccurrenceWeight,
                       tfidfWeight + charWeight + coOccurrenceWeight, tfidf) IN
    combined(calculateTFIDFSimilarity(cache, sentence1, sentence2, filterFillers),
             calculateCharacterSimilarity(sentence1, sentence2))

\* calculateCombinedSimilarity on two strings: the value, in units of
\* 1/(Scale*Scale), and the cache afterwards
calculateCombinedSimilarity(cache, sentence1, sentence2, tfidfWeight, charWeight, filterFillers, coOccurrenceWeight, coOccurrenceMethod) ==
    LET normalized(score, totalWeight, tfidf) ==
            [value |-> IF totalWeight > 0 THEN (score * Scale) \div totalWeight ELSE 0,
             cache |-> tfidf.cache]
        combined(tfidf, charScore) ==
            IF coOccurrenceWeight > 0
            THEN normalized(tfidf.value * tfidfWeight + charScore * charWeight
                                + calculateCoOccurrenceSimilarity(
                                      sentence1, sentence2, filterFillers,
                                      coOccurrenceMethod) * coOccurrenceWeight,
                            tfidfWeight + charWeight + coOccurrenceWeight, tfidf)
            ELSE normalized(tfidf.value * tfidfWeight + charScore * charWeight,
                            tfidfWeight + charWeight, tfidf) IN
    combined(calculateTFIDFSimilarity(cache, sentence1, sentence2, filterFillers),
             calculateCharacterSimilarity(sentence1, sentence2))

\* getTF, in units of 1/Scale
getTF(token) == calculateTF(stem(toLowerCase(token)), stemmedTokens)

\* ------------------------------------------------------------------ ranking
\* Array.prototype.sort((a, b) => b[1] - a[1]): stable, by score descending;
\* insert puts a pair behind every pair of the sorted list whose score is not lower
RECURSIVE insert(_, _)
insert(sorted, pair) ==
    IF sorted = <<>> THEN <<pair>>
    ELSE IF Head(sorted)[2] >= pair[2] THEN <<Head(sorted)>> \o insert(Tail(sorted), pair)
    ELSE <<pair>> \o sorted

\* sortByScore with the sort left out: the pairs in the order of the corpus
sortByScoreSkipped(pairs) == pairs

RECURSIVE sortByScore(_)
sortByScore(pairs) ==
    IF pairs = <<>> THEN <<>>
    ELSE insert(sortByScore(sliceEnd(pairs, 1)), pairs[Len(pairs)])

\* slice cutting one entry early
sliceShort(list, n) == SubSeq(list, 1, Min(n - 1, Len(list)))

\* Array.prototype.slice(0, n) for n > 0
slice(list, n) == SubSeq(list, 1, Min(n, Len(list)))

\* keeps with the pair pushed at a similarity of 0 as well
keepsZero(similarity) == similarity >= 0

\* if (similarity > 0): the pair is pushed
keeps(similarity) == similarity > 0

\* the loop of rankSentences over this.sentences, from sentence i on: the pairs
\* kept and the cache afterwards
RECURSIVE rankLoop(_, _, _, _, _, _, _, _, _)
rankLoop(cache, sentenceRanks, i, query, tfidfWeight, charWeight, filterWords, coOccurrenceWeight, coOccurrenceMethod) ==
    LET push(similarity) ==
            rankLoop(similarity.cache,
                     IF keeps(similarity.value)
                     THEN Append(sentenceRanks, <<sentences[i], similarity.value>>)
                     ELSE sentenceRanks,
                     i + 1, query, tfidfWeight, charWeight, filterWords,
                     coOccurrenceWeight, coOccurrenceMethod) IN
    IF i > Len(sentences) THEN [list |-> sentenceRanks, cache |-> cache]
    ELSE push(calculateCombinedSimilarity(
                  cache, query, sentences[i], tfidfWeight, charWeight,
                  filterWords, coOccurrenceWeight, coOccurrenceMethod))

\* rejects without the typeof test: a truthy non-string query goes on
rejectsFalsy(query) == ~query.truthy

\* if (!query || typeof query !== 'string'): the call returns []
rejects(query) == ~query.truthy \/ query.type # "string"

\* rankSentences up to the sort: query is a JavaScript value
rankSorted(cache, query, tfidfWeight, charWeight, filterWords, coOccurrenceWeight, coOccurrenceMethod) ==
    LET sorted(ranked) == [list |-> sortByScore(ranked.list), cache |-> ranked.cache] IN
    IF rejects(query) THEN [list |-> <<>>, cache |-> cache]
    ELSE sorted(rankLoop(cache, <<>>, 1, query.str, tfidfWeight, charWeight,
                         filterWords, coOccurrenceWeight, coOccurrenceMethod))

\* the return of rankSentences: the top N if specified
topOf(sentenceRanks, topN) == IF topN > 0 THEN slice(sentenceRanks, topN) ELSE sentenceRanks

\* rankSentences: the list returned and the cache afterwards
rankSentences(cache, query, topN, tfidfWeight, charWeight, filterWords, coOccurrenceWeight, coOccurrenceMethod) ==
    LET top(ranked) == [list |-> topOf(ranked.list, topN), cache |-> ranked.cache] IN
    top(rankSorted(cache, query, tfidfWeight, charWeight, filterWords,
                   coOccurrenceWeight, coOccurrenceMethod))

\* ------------------------------------------------- co-occurrence look-ups
\* the keys of the matrix row of stemmedWord in the order buildCoOccurrenceMatrix
\* set them: sentence by sentence, the other distinct tokens of each sentence
\* that holds stemmedWord
rowKeys(stemmedWord) ==
    LET others(doc) ==
            IF stemmedWord \in Range(doc)
            THEN SelectSeq(unique(doc), LAMBDA word2 : word2 # stemmedWord)
            ELSE <<>> IN
    unique(flatten(array([d \in 1..Len(corpusDocs) |-> others(corpusDocs[d])])))

\* Array.from(this.coOccurrenceMatrix.get(stemmedWord).entries())
rowEntries(stemmedWord) ==
    LET entries(keys) ==
            array([k \in 1..Len(keys) |->
                       <<keys[k], coOccurrenceMatrix[stemmedWord][keys[k]]>>]) IN
    entries(rowKeys(stemmedWord))

\* getTopCoOccurrences: [word, count] pairs
getTopCoOccurrences(word, topN) ==
    LET top(stemmedWord) ==
            IF stemmedWord \notin DOMAIN coOccurrenceMatrix THEN <<>>
            ELSE slice(sortByScore(rowEntries(stemmedWord)), topN) IN
    top(stem(toLowerCase(word)))

\* the windows of n successive elements of list, in order
windows(list, n) ==
    array([i \in 1..Max(0, Len(list) - n + 1) |-> SubSeq(list, i, i + n - 1)])

\* queryNgram.every((token, idx) => token === corpusNgram[idx])
matches(queryNgram, corpusNgram) ==
    \A idx \in 1..Len(queryNgram) :
        /\ idx <= Len(corpusNgram)
        /\ queryNgram[idx] = corpusNgram[idx]

\* countedTokens with a corpus n-gram counted as soon as its first token is the
\* first token of the query n-gram
countedTokensFirstSlot(queryNgrams, corpusNgrams) ==
    flatten(array([k \in 1..Len(queryNgrams) * Len(corpusNgrams) |->
        LET queryNgram == queryNgrams[((k - 1) \div Len(corpusNgrams)) + 1]
            corpusNgram == corpusNgrams[((k - 1) % Len(corpusNgrams)) + 1] IN
        IF matches(SubSeq(queryNgram, 1, Min(1, Len(queryNgram))), corpusNgram)
        THEN corpusNgram ELSE <<>>]))

\* the tokens findMostCommonTokenFromQueryNgrams counts, in the order it counts
\* them: for each query n-gram, the tokens of each corpus n-gram that matches it
countedTokens(queryNgrams, corpusNgrams) ==
    flatten(array([k \in 1..Len(queryNgrams) * Len(corpusNgrams) |->
        LET queryNgram == queryNgrams[((k - 1) \div Len(corpusNgrams)) + 1]
            corpusNgram == corpusNgrams[((k - 1) % Len(corpusNgrams)) + 1] IN
        IF matches(queryNgram, corpusNgram) THEN corpusNgram ELSE <<>>]))

\* findMostCommonTokenFromQueryNgrams with the tokens of the query left in
\* tokenCounts
findMostCommonTokenFromQueryNgramsKeepingQuery(query, ngramSize, filterFillers, topN) ==
    LET entries(counted, keys) ==
            array([k \in 1..Len(keys) |-> <<keys[k], count(keys[k], counted)>>])
        top(counted) == slice(sortByScore(entries(counted, unique(counted))), topN)
        matched(queryTokens) ==
            IF Len(queryTokens) < ngramSize THEN <<>>
            ELSE top(countedTokens(windows(queryTokens, ngramSize),
                                   windows(stemmedTokens, ngramSize))) IN
    IF ~query.truthy \/ query.type # "string" THEN <<>>
    ELSE matched(parseTokensStemmed(query, filterFillers, fillerWords))

\* findMostCommonTokenFromQueryNgrams: [token, count] pairs; query is a
\* JavaScript value
findMostCommonTokenFromQueryNgrams(query, ngramSize, filterFillers, topN) ==
    LET entries(counted, keys) ==
            array([k \in 1..Len(keys) |-> <<keys[k], count(keys[k], counted)>>])
        remaining(counted, queryTokens) ==
            entries(counted,
                    SelectSeq(unique(counted), LAMBDA token : token \notin Range(queryTokens)))
        matched(queryTokens) ==
            IF Len(queryTokens) < ngramSize THEN <<>>
            ELSE slice(sortByScore(remaining(
                           countedTokens(windows(queryTokens, ngramSize),
                                         windows(stemmedTokens, ngramSize)),
                           queryTokens)),
                       topN) IN
    IF ~query.truthy \/ query.type # "string" THEN <<>>
    ELSE matched(parseTokensStemmed(query, filterFillers, fillerWords))

\* ------------------------------------------------------------------ inputs
\* the corpus of the end-to-end example
ExampleCorpus == Str(<<"T", "h", "e", " ", "c", "a", "t", " ", "s", "a", "t", ".", " ", "T", "h", "e", " ", "d", "o", "g", " ", "r", "a", "n", " ", "f", "a", "s", "t", ".", " ", "C", "a", "t", "s", " ", "a", "n", "d", " ", "d", "o", "g", "s", " ", "a", "r", "e", " ", "f", "r", "i", "e", "n", "d", "s", ".">>)

\* the corpus texts a model is constructed from
CorpusTexts ==
    { Str(<<"t", "h", "e", " ", "c", "a", "t", ";", " ", "@", "@", "!", " ", "T", "h", "e", " ", "D", "o", "g", "s">>),
      Str(<<"t", "h", "e", " ", "c", "a", "t", " ", "c", "a", "t", " ", "d", "o", "g", ".", " ", "d", "o", "g">>),
      Str(<<>>),
      Str(<<"c", "a", "t", " ", "d", "o", "g", ".", " ", "d", "o", "g", "'", "s", " ", "c", "a", "t", " ", "h", "o", "r", "s", "e", "s">>),
      ExampleCorpus }

\* ./fillers.json: missing or no valid JSON, or a list of words
FillerFiles ==
    { [ok |-> FALSE, json |-> Undefined],
      [ok |-> TRUE, json |-> Arr(<< Str(<<"T", "h", "e">>), Str(<<"a", "n", "d">>) >>)] }

\* ./fillers.json with content that is valid JSON and no list of strings, and
\* with the empty list
OtherFillerFiles ==
    { [ok |-> TRUE, json |-> Obj],
      [ok |-> TRUE, json |-> Five],
      [ok |-> TRUE, json |-> Null],
      [ok |-> TRUE, json |-> Str(<<"t", "h", "e">>)],
      [ok |-> TRUE, json |-> Arr(<< Str(<<"T", "h", "e">>), Five >>)],
      [ok |-> TRUE, json |-> Arr(<< Null, Str(<<"a", "n", "d">>) >>)],
      [ok |-> TRUE, json |-> Arr(<< Arr(<< Str(<<"t", "h", "e">>) >>) >>)],
      [ok |-> TRUE, json |-> Arr(<<>>)] }

\* the token arrays given to filterTokens
TokenLists ==
    { <<>>, << <<"T", "h", "e">>, <<"c", "a", "t">> >>, << <<"a", "n", "d">> >>, << <<"t", "h", "e">>, <<"A", "N", "D">>, <<"d", "o", "g">> >>,
      << <<"c", "a", "t">>, <<"c", "a", "t">> >> }

\* the texts given to getFilteredTokens
Texts == { Str(<<>>), Undefined, Str(<<"T", "h", "e", " ", "c", "a", "t", " ", "a", "n", "d", " ", "t", "h", "e", " ", "d", "o", "g">>), Str(<<"a", "n", "d", ";", " ", "A", "N", "D">>) }

\* the queries of rankSentences: strings and values that are no strings
Queries ==
    { Str(<<>>), Undefined, Null, Five, Obj,
      Str(<<"c", "a", "t">>), Str(<<"z", "z">>), Str(<<"t", "h", "e">>), Str(<<"C", "a", "t", "s", " ", "d", "o", "g", "s">>), Str(<<"c">>) }

\* further queries of the end-to-end example
ExampleQueries ==
    { Str(<<"d", "o", "g">>), Str(<<"T", "h", "e", " ", "c", "a", "t">>), Str(<<"d", "o", "g", "s", " ", "c", "a", "t">>), Str(<<"c", "a", "t", " ", "t", "h", "e", " ", "d", "o", "g">>) }

\* tfidfWeight, charWeight, coOccurrenceWeight (in units of 1/100) and
\* coOccurrenceMethod
Weightings ==
    { <<95, 5, 0, "jaccard">>, <<70, 10, 20, "jaccard">>, <<70, 10, 20, "pmi">>,
      <<100, 0, 0, "pmi">>, <<0, 0, 0, "jaccard">>, <<0 - 50, 100, 0, "jaccard">>,
      <<0, 0, 100, "pmi">> }

\* the weights of calculateCombinedSimilarity called on its own: totals above,
\* at and below 0, with and without the co-occurrence weight, which is above,
\* at and below 0
CombinedWeightings ==
    { <<70, 30, 0, "jaccard">>, <<70, 10, 20, "jaccard">>, <<70, 10, 20, "pmi">>,
      <<70, 10, 0 - 20, "jaccard">>, <<70, 10, 0 - 20, "pmi">>, <<0, 0, 0, "jaccard">>,
      <<50, 0 - 50, 0, "jaccard">>, <<0 - 50, 0 - 50, 100, "jaccard">>,
      <<0 - 100, 50, 0, "jaccard">>, <<0 - 100, 20, 30, "pmi">>, <<0, 0, 0 - 10, "pmi">> }

\* the sentences compared by calculateTFIDFSimilarity
Sentences ==
    { <<"t", "h", "e", " ", "c", "a", "t">>, <<"T", "h", "e", " ", "t", "h", "e">>, <<"@", "@">>, <<"c", "a", "t", " ", "c", "a", "t", " ", "d", "o", "g">>, <<"z", "z", " ", "d", "o", "g", "s">> }

\* the strings compared by calculateCharacterSimilarity
Strings == { <<>>, <<"c", "a", "t">>, <<"C", "a", "t">>, <<"t", "h", "e", " ", "c", "a", "t">>, <<"t", "a", "c">>, <<"c">> }

\* the words of calculateCoOccurrenceScore and getTopCoOccurrences
Words == { <<"c", "a", "t">>, <<"C", "a", "t", "s">>, <<"d", "o", "g">>, <<"z", "z", "z">>, <<"Z", "Z", "Z", "s">>, <<"h", "o", "r", "s", "e", "s">>, <<"h", "o", "r", "s">> }

\* the sentences compared by calculateCoOccurrenceSimilarity
CoOccurrenceSentences ==
    { <<"t", "h", "e", " ", "c", "a", "t">>, <<"T", "h", "e", " ", "t", "h", "e">>, <<"@", "@">>, <<"d", "o", "g", "s", " ", "c", "a", "t">>, <<"h", "o", "r", "s", "e", "s", " ", "c", "a", "t">>, <<"z", "z", " ", "d", "o", "g", "s">> }

\* the second sentences of calculateCombinedSimilarity
OtherSentences == { <<"t", "h", "e", " ", "c", "a", "t">>, <<"z", "z", " ", "d", "o", "g", "s">> }

\* the queries of findMostCommonTokenFromQueryNgrams called on its own
NgramQueries ==
    { Str(<<>>), Undefined, Str(<<"c", "a", "t">>), Str(<<"z", "z">>), Str(<<"C", "a", "t", "s", " ", "d", "o", "g", "s">>), Str(<<"t", "h", "e", " ", "c", "a", "t", " ", "c", "a", "t">>),
      Str(<<"t", "h", "e", " ", "d", "o", "g">>), Str(<<"T", "h", "e", " ", "c", "a", "t", " ", "s", "a", "t", " ", "a", "n", "d">>), Str(<<"d", "o", "g", " ", "z", "z">>) }

\* corpus texts that are empty or no strings
MalformedCorpora == { Str(<<>>), Undefined, Null, Zero, Five, Obj }

\* the texts given to parseTokens, parseSentences and parseTokensStemmed
ParseTexts == MalformedCorpora \cup { Str(<<"T", "h", "e", " ", "c", "a", "t", "s", ".", " ", "a", "n", "d", ";", " ", "d", "o", "g", "s">>), Str(<<" ", ".">>) }

\* queries of rankSentences that mix tokens of the corpus with tokens outside it
MixedQueries ==
    { Str(<<"z", "z", " ", "d", "o", "g">>), Str(<<"c", "a", "t">>), Str(<<"h", "o", "r", " ", "c", "a", "t">>), Str(<<"D", "o", "g", "s", " ", "z", "z", " ", "t", "h", "e">>) }

\* the weights of rankSentences on mixed queries
MixedWeightings == { <<95, 5, 0, "jaccard">>, <<70, 10, 20, "pmi">> }

\* the characters and the largest length of the enumerated corpus texts
CorpusLetters == {"a", "S", ".", " ", "'"}

MaxCorpusLen == 4

\* the largest n-gram size tried
MaxNgramSize == 2

\* the tokens of getIDF and getTokenStats
Tokens == { <<"c", "a", "t">>, <<"z", "z">> }

\* the tokens and the documents given to calculateIDF, and the largest number
\* of documents
IdfTokens == { <<"a">>, <<"b">>, <<"c">> }

Documents ==
    { <<>>, << <<"a">> >>, << <<"b">> >>, << <<"a">>, <<"a">> >>, << <<"a">>, <<"b">> >>,
      << <<"b">>, <<"a">>, <<"a">> >> }

MaxDocuments == 3

\* the letters the enumerated words of the stemmer are made of
StemLetters == {"e", "i", "s", "d", "T"}

\* the words given to stem: every word of at most MaxWordLen letters, the words
\* the suffix rules are documented with, and undefined
StemInputs ==
    {Str(w) : w \in UNION {[1..n -> StemLetters] : n \in 0..MaxWordLen}}
    \cup {Str(<<"r", "u", "n", "n", "i", "n", "g">>), Str(<<"h", "o", "r", "s", "e", "s">>), Str(<<"f", "l", "i", "e", "s">>), Str(<<"H", "a", "s">>), Str(<<"w", "a", "s">>),
          Str(<<"m", "a", "k", "i", "n", "g">>), Str(<<"s", "t", "o", "p", "p", "e", "d">>), Str(<<"g", "l", "a", "s", "s", "e", "s">>), Str(<<"n", "a", "t", "i", "o", "n", "a", "l", "i", "z", "a", "t", "i", "o", "n">>),
          Str(<<"r", "a", "t", "i", "o", "n", "a", "l">>), Str(<<"S", "i", "z", "a", "t", "i", "o", "n">>), Str(<<"T", "e", "d">>)}
    \cup {Undefined, Null}

\* words given to stem that hold the capital I with a dot above
DottedWords ==
    { Str(<<DottedCapitalI>>), Str(<<DottedCapitalI, "s">>), Str(<<DottedCapitalI, "d", "d">>),
      Str(<<DottedCapitalI, "e", "d">>), Str(<<"d", DottedCapitalI, "e", "s">>),
      Str(<<"T", DottedCapitalI, "d", "i", "e", "s">>), Str(<<DottedCapitalI, "i", "n", "g">>) }

\* ----------------------------------------------------------------- actions
\* new NarrowMindModel(data), with ./fillers.json as file
Construct(data, file) ==
    /\ rawData = data
    /\ fillersFile = file
    /\ tokens = parseTokens(data)
    /\ sentences = parseSentences(data)
    /\ fillerWords = loadFillerWords(file)
    /\ filteredTokens = filterTokens(parseTokens(data), loadFillerWords(file))
    /\ corpusDocs = [i \in 1..Len(parseSentences(data)) |->
                       parseTokensStemmed(Str(parseSentences(data)[i]), FALSE, {})]
    /\ stemmedTokens = parseTokensStemmed(data, FALSE, {})
    /\ idfCache = precomputeIDF(parseTokensStemmed(data, FALSE, {}),
                                [i \in 1..Len(parseSentences(data)) |->
                                   parseTokensStemmed(Str(parseSentences(data)[i]), FALSE, {})])
    /\ coOccurrenceMatrix = buildCoOccurrenceMatrix(
                                [i \in 1..Len(parseSentences(data)) |->
                                   parseTokensStemmed(Str(parseSentences(data)[i]), FALSE, {})])
    /\ call = [name |-> "new"]
    /\ ret = <<>>

Init == \E data \in CorpusTexts, file \in FillerFiles : Construct(data, file)

\* the caller is synchronous: it makes a call when the call before has returned
\* and its result has been taken
idle == call.name \in {"new", "return"}

\* the caller takes the result of the last call
Return ==
    /\ ~idle
    /\ call' = [name |-> "return"]
    /\ ret' = <<>>
    /\ UNCHANGED <<index, idfCache>>

\* model.rankSentences(query, topN, tfidfWeight, charWeight, filterWords,
\*                     coOccurrenceWeight, coOccurrenceMethod)
RankSentences ==
    /\ idle
    /\ \E query \in Queries, w \in Weightings, filterWords \in BOOLEAN :
        \E ranked \in {rankSorted(idfCache, query, w[1], w[2], filterWords, w[3], w[4])},
           topN \in 0..MaxTopN :
            /\ call' = [name |-> "rankSentences", query |-> query, topN |-> topN,
                        tfidfWeight |-> w[1], charWeight |-> w[2],
                        filterWords |-> filterWords, coOccurrenceWeight |-> w[3],
                        coOccurrenceMethod |-> w[4]]
            /\ ret' = topOf(ranked.list, topN)
            /\ idfCache' = ranked.cache
            /\ UNCHANGED index

\* model.rankSentences(query), every other argument at its default
RankDefault ==
    /\ idle
    /\ \E query \in Queries \cup ExampleQueries :
        \E ranked \in {rankSentences(idfCache, query, 0, 95, 5, FALSE, 0, "jaccard")} :
        /\ call' = [name |-> "rankDefault", query |-> query]
        /\ ret' = ranked.list
        /\ idfCache' = ranked.cache
        /\ UNCHANGED index

\* model.calculateTFIDFSimilarity(sentence1, sentence2, filterFillers)
CalculateTFIDFSimilarity ==
    /\ idle
    /\ \E sentence1 \in Sentences, sentence2 \in Sentences, filterFillers \in BOOLEAN :
        \E similarity \in {calculateTFIDFSimilarity(idfCache, sentence1, sentence2,
                                                     filterFillers)} :
        /\ call' = [name |-> "calculateTFIDFSimilarity", sentence1 |-> sentence1,
                    sentence2 |-> sentence2, filterFillers |-> filterFillers]
        /\ ret' = similarity.value
        /\ idfCache' = similarity.cache
        /\ UNCHANGED index

\* stem(token)
Stem ==
    /\ idle
    /\ \E token \in StemInputs :
        /\ call' = [name |-> "stem", token |-> token]
        /\ ret' = stemValue(token)
        /\ UNCHANGED <<index, idfCache>>

\* model.getIDF(token)
GetIDF ==
    /\ idle
    /\ \E token \in Tokens :
        \E got \in {getIDF(idfCache, token)} :
            /\ call' = [name |-> "getIDF", token |-> token]
            /\ ret' = got.value
            /\ idfCache' = got.cache
        /\ UNCHANGED index

\* model.getTokenStats(token)
GetTokenStats ==
    /\ idle
    /\ \E token \in Tokens :
        \E normalizedToken \in {toLowerCase(token)} :
        \E stemmedToken \in {stem(normalizedToken)} :
        \E idf \in {getIDF(idfCache, stemmedToken)} :
            /\ call' = [name |-> "getTokenStats", token |-> token]
            /\ ret' = [token |-> normalizedToken,
                       stemmed |-> stemmedToken,
                       tf |-> getTF(normalizedToken),
                       idf |-> idf.value]
            /\ idfCache' = idf.cache
        /\ UNCHANGED index

\* model.calculateCharacterSimilarity(str1, str2)
CalculateCharacterSimilarity ==
    /\ idle
    /\ \E str1 \in Strings, str2 \in Strings :
        /\ call' = [name |-> "calculateCharacterSimilarity", str1 |-> str1, str2 |-> str2]
        /\ ret' = calculateCharacterSimilarity(str1, str2)
        /\ UNCHANGED <<index, idfCache>>

\* model.calculateCoOccurrenceScore(word1, word2, method)
CalculateCoOccurrenceScore ==
    /\ idle
    /\ \E word1 \in Words, word2 \in Words, method \in {"jaccard", "pmi"} :
        /\ call' = [name |-> "calculateCoOccurrenceScore", word1 |-> word1,
                    word2 |-> word2, method |-> method]
        /\ ret' = calculateCoOccurrenceScore(word1, word2, method)
        /\ UNCHANGED <<index, idfCache>>

\* model.calculateCoOccurrenceSimilarity(sentence1, sentence2, filterFillers, method)
CalculateCoOccurrenceSimilarity ==
    /\ idle
    /\ \E sentence1 \in CoOccurrenceSentences, sentence2 \in CoOccurrenceSentences,
          filterFillers \in BOOLEAN, method \in {"jaccard", "pmi"} :
        /\ call' = [name |-> "calculateCoOccurrenceSimilarity", sentence1 |-> sentence1,
                    sentence2 |-> sentence2, filterFillers |-> filterFillers,
                    method |-> method]
        /\ ret' = calculateCoOccurrenceSimilarity(sentence1, sentence2, filterFillers, method)
        /\ UNCHANGED <<index, idfCache>>

\* model.calculateCombinedSimilarity(sentence1, sentence2, tfidfWeight, charWeight,
\*                                   filterFillers, coOccurrenceWeight, coOccurrenceMethod)
CalculateCombinedSimilarity ==
    /\ idle
    /\ \E sentence1 \in Sentences, sentence2 \in OtherSentences, w \in Weightings,
          filterFillers \in BOOLEAN :
        \E similarity \in {calculateCombinedSimilarity(idfCache, sentence1, sentence2,
                                                        w[1], w[2], filterFillers,
                                                        w[3], w[4])} :
        /\ call' = [name |-> "calculateCombinedSimilarity", sentence1 |-> sentence1,
                    sentence2 |-> sentence2, tfidfWeight |-> w[1], charWeight |-> w[2],
                    filterFillers |-> filterFillers, coOccurrenceWeight |-> w[3],
                    coOccurrenceMethod |-> w[4]]
        /\ ret' = similarity.value
        /\ idfCache' = similarity.cache
        /\ UNCHANGED index

\* getTopCoOccurrences cutting the row of the matrix itself down to the entries
\* it returns, where the code sorts and cuts a copy made by Array.from
GetTopCoOccurrencesInPlace ==
    /\ idle
    /\ \E word \in Words, topN \in 0..MaxTopN :
        \E top \in {getTopCoOccurrences(word, topN)}, stemmedWord \in {stem(toLowerCase(word))} :
        /\ call' = [name |-> "getTopCoOccurrences", word |-> word, topN |-> topN]
        /\ ret' = top
        /\ coOccurrenceMatrix' =
               IF stemmedWord \in DOMAIN coOccurrenceMatrix
               THEN mapSet(coOccurrenceMatrix, stemmedWord,
                           [word2 \in {top[k][1] : k \in 1..Len(top)} |->
                                coOccurrenceMatrix[stemmedWord][word2]])
               ELSE coOccurrenceMatrix
        /\ UNCHANGED <<rawData, fillersFile, tokens, sentences, fillerWords,
                       filteredTokens, corpusDocs, stemmedTokens, idfCache>>

\* model.getTopCoOccurrences(word, topN)
GetTopCoOccurrences ==
    /\ idle
    /\ \E word \in Words, topN \in 0..MaxTopN :
        /\ call' = [name |-> "getTopCoOccurrences", word |-> word, topN |-> topN]
        /\ ret' = getTopCoOccurrences(word, topN)
        /\ UNCHANGED <<index, idfCache>>

\* model.findMostCommonTokenFromQueryNgrams(query, ngramSize, filterFillers, topN)
FindMostCommonTokenFromQueryNgrams ==
    /\ idle
    /\ \E query \in Queries, ngramSize \in 1..MaxNgramSize, filterFillers \in BOOLEAN,
          topN \in 1..MaxTopN :
        /\ call' = [name |-> "findMostCommonTokenFromQueryNgrams", query |-> query,
                    ngramSize |-> ngramSize, filterFillers |-> filterFillers,
                    topN |-> topN]
        /\ ret' = findMostCommonTokenFromQueryNgrams(query, ngramSize, filterFillers, topN)
        /\ UNCHANGED <<index, idfCache>>

Next ==
    \/ RankSentences
    \/ RankDefault
    \/ CalculateTFIDFSimilarity
    \/ GetIDF
    \/ GetTokenStats
    \/ CalculateCharacterSimilarity
    \/ CalculateCoOccurrenceScore
    \/ CalculateCoOccurrenceSimilarity
    \/ CalculateCombinedSimilarity
    \/ GetTopCoOccurrences
    \/ FindMostCommonTokenFromQueryNgrams
    \/ Return

Spec == Init /\ [][Next]_vars

\* the model of the end-to-end example
InitExample == \E file \in FillerFiles : Construct(ExampleCorpus, file)

NextExample == RankDefault \/ GetTokenStats \/ Return

SpecExample == InitExample /\ [][NextExample]_vars

\* model.filterTokens(tokens)
FilterTokens ==
    /\ idle
    /\ \E list \in TokenLists :
        /\ call' = [name |-> "filterTokens", tokens |-> list]
        /\ ret' = filterTokens(list, fillerWords)
        /\ UNCHANGED <<index, idfCache>>

\* model.getFilteredTokens(text)
GetFilteredTokens ==
    /\ idle
    /\ \E text \in Texts :
        /\ call' = [name |-> "getFilteredTokens", text |-> text]
        /\ ret' = filterTokens(parseTokens(text), fillerWords)
        /\ UNCHANGED <<index, idfCache>>

\* the filler filter, on models constructed with every content of ./fillers.json
InitFillers ==
    \E data \in {Str(<<"t", "h", "e", " ", "c", "a", "t", ";", " ", "@", "@", "!", " ", "T", "h", "e", " ", "D", "o", "g", "s">>), ExampleCorpus},
       file \in FillerFiles \cup OtherFillerFiles : Construct(data, file)

NextFillers == FilterTokens \/ GetFilteredTokens \/ Return

SpecFillers == InitFillers /\ [][NextFillers]_vars

\* model.calculateIDF(token, documents)
CalculateIDF ==
    /\ idle
    /\ \E token \in IdfTokens,
          documents \in UNION {[1..n -> Documents] : n \in 0..MaxDocuments} :
        /\ call' = [name |-> "calculateIDF", token |-> token, documents |-> documents]
        /\ ret' = calculateIDF(token, documents)
        /\ UNCHANGED <<index, idfCache>>

\* model.calculateCombinedSimilarity(sentence1, sentence2, tfidfWeight, charWeight,
\* filterFillers, coOccurrenceWeight, coOccurrenceMethod) with weights of either sign
CalculateCombinedSimilarityWeights ==
    /\ idle
    /\ \E sentence1 \in CoOccurrenceSentences, sentence2 \in OtherSentences,
          w \in CombinedWeightings, filterFillers \in BOOLEAN :
        \E similarity \in {calculateCombinedSimilarity(idfCache, sentence1, sentence2,
                                                        w[1], w[2], filterFillers,
                                                        w[3], w[4])} :
        /\ call' = [name |-> "calculateCombinedSimilarity", sentence1 |-> sentence1,
                    sentence2 |-> sentence2, tfidfWeight |-> w[1], charWeight |-> w[2],
                    filterFillers |-> filterFillers, coOccurrenceWeight |-> w[3],
                    coOccurrenceMethod |-> w[4]]
        /\ ret' = similarity.value
        /\ idfCache' = similarity.cache
        /\ UNCHANGED index

NextCombined == CalculateCombinedSimilarityWeights \/ Return

SpecCombined == Init /\ [][NextCombined]_vars

\* model.findMostCommonTokenFromQueryNgrams(query, ngramSize, filterFillers, topN)
\* with n-gram sizes from 0 and queries of up to four tokens
FindMostCommonTokenFromQueryNgramsSized ==
    /\ idle
    /\ \E query \in NgramQueries, ngramSize \in 0..MaxNgramSize + 1, filterFillers \in BOOLEAN,
          topN \in 0..MaxTopN :
        /\ call' = [name |-> "findMostCommonTokenFromQueryNgrams", query |-> query,
                    ngramSize |-> ngramSize, filterFillers |-> filterFillers,
                    topN |-> topN]
        /\ ret' = findMostCommonTokenFromQueryNgrams(query, ngramSize, filterFillers, topN)
        /\ UNCHANGED <<index, idfCache>>

NextNgrams == FindMostCommonTokenFromQueryNgramsSized \/ Return

SpecNgrams == Init /\ [][NextNgrams]_vars

\* model.calculateTF(token, wordList)
CalculateTF ==
    /\ idle
    /\ \E token \in IdfTokens, wordList \in Documents :
        /\ call' = [name |-> "calculateTF", token |-> token, wordList |-> wordList]
        /\ ret' = calculateTF(token, wordList)
        /\ UNCHANGED <<index, idfCache>>

\* the arithmetic of TF, IDF and the cosine on a model with an empty corpus and
\* on one with two sentences
InitEdges ==
    \E data \in {Str(<<>>), Str(<<"t", "h", "e", " ", "c", "a", "t", " ", "c", "a", "t", " ", "d", "o", "g", ".", " ", "d", "o", "g">>)}, file \in FillerFiles :
        Construct(data, file)

NextEdges == CalculateTF \/ CalculateIDF \/ CalculateTFIDFSimilarity \/ Return

SpecEdges == InitEdges /\ [][NextEdges]_vars

\* model.parseTokens(text)
ParseTokens ==
    /\ idle
    /\ \E text \in ParseTexts :
        /\ call' = [name |-> "parseTokens", text |-> text]
        /\ ret' = parseTokens(text)
        /\ UNCHANGED <<index, idfCache>>

\* model.parseSentences(text)
ParseSentences ==
    /\ idle
    /\ \E text \in ParseTexts :
        /\ call' = [name |-> "parseSentences", text |-> text]
        /\ ret' = parseSentences(text)
        /\ UNCHANGED <<index, idfCache>>

\* model.parseTokensStemmed(text, filterFillers)
ParseTokensStemmed ==
    /\ idle
    /\ \E text \in ParseTexts, filterFillers \in BOOLEAN :
        /\ call' = [name |-> "parseTokensStemmed", text |-> text,
                    filterFillers |-> filterFillers]
        /\ ret' = parseTokensStemmed(text, filterFillers, fillerWords)
        /\ UNCHANGED <<index, idfCache>>

\* models constructed from a corpus text that is empty or no string
InitMalformed ==
    \E data \in MalformedCorpora, file \in FillerFiles : Construct(data, file)

NextMalformed ==
    \/ ParseTokens
    \/ ParseSentences
    \/ ParseTokensStemmed
    \/ RankSentences
    \/ FindMostCommonTokenFromQueryNgramsSized
    \/ Return

SpecMalformed == InitMalformed /\ [][NextMalformed]_vars

\* model.rankSentences(query, topN, tfidfWeight, charWeight, filterWords,
\*                     coOccurrenceWeight, coOccurrenceMethod) on mixed queries
RankSentencesMixed ==
    /\ idle
    /\ \E query \in MixedQueries, w \in MixedWeightings, filterWords \in BOOLEAN :
        \E ranked \in {rankSorted(idfCache, query, w[1], w[2], filterWords, w[3], w[4])},
           topN \in 0..MaxTopN :
            /\ call' = [name |-> "rankSentences", query |-> query, topN |-> topN,
                        tfidfWeight |-> w[1], charWeight |-> w[2],
                        filterWords |-> filterWords, coOccurrenceWeight |-> w[3],
                        coOccurrenceMethod |-> w[4]]
            /\ ret' = topOf(ranked.list, topN)
            /\ idfCache' = ranked.cache
            /\ UNCHANGED index

\* rankings after any sequence of rankSentences, getIDF and getTokenStats
InitHistory ==
    \E data \in {Str(<<"t", "h", "e", " ", "c", "a", "t", " ", "c", "a", "t", " ", "d", "o", "g", ".", " ", "d", "o", "g">>), Str(<<"c", "a", "t", " ", "d", "o", "g", ".", " ", "d", "o", "g", "'", "s", " ", "c", "a", "t", " ", "h", "o", "r", "s", "e", "s">>)},
       file \in FillerFiles :
        Construct(data, file)

NextHistory == RankSentencesMixed \/ GetIDF \/ GetTokenStats \/ Return

SpecHistory == InitHistory /\ [][NextHistory]_vars

\* models constructed from every text of at most MaxCorpusLen characters
InitTexts ==
    \E data \in {Str(w) : w \in UNION {[1..n -> CorpusLetters] : n \in 0..MaxCorpusLen}} :
        Construct(data, [ok |-> FALSE, json |-> Undefined])

NextTexts == GetIDF \/ Return

SpecTexts == InitTexts /\ [][NextTexts]_vars

\* stem(token) on a word that holds the capital I with a dot above
StemDotted ==
    /\ idle
    /\ \E token \in DottedWords :
        /\ call' = [name |-> "stem", token |-> token]
        /\ ret' = stemValue(token)
        /\ UNCHANGED <<index, idfCache>>

\* the stemmer alone, on a model that stays as constructed
InitStem ==
    Construct(Str(<<"t", "h", "e", " ", "c", "a", "t", " ", "c", "a", "t", " ", "d", "o", "g", ".", " ", "d", "o", "g">>), [ok |-> FALSE, json |-> Undefined])

NextStem == Stem \/ Return

SpecStem == InitStem /\ [][NextStem]_vars

\* the stemmer on the words of SpecStem and on the dotted words
NextStemDotted == Stem \/ StemDotted \/ Return

SpecStemDotted == InitStem /\ [][NextStemDotted]_vars

\* calculateIDF alone, on document lists of the caller
NextIDF == CalculateIDF \/ Return

SpecIDF == InitStem /\ [][NextIDF]_vars

\* ================================================================== claims
\* ------------------------------------------------------------------ C1
\* C1: every [sentence, score] pair returned by rankSentences has a score
\* strictly greater than 0: a sentence whose combined similarity is 0 is left out.
C1_ScoresPositive ==
    call.name \in {"rankSentences", "rankDefault"} => \A i \in 1..Len(ret) : ret[i][2] > 0

\* C1 witness: a ranking of all results that returns some sentences of the
\* corpus and leaves another one out
C1_SentenceLeftOut ==
    /\ call.name = "rankSentences"
    /\ call.topN = 0
    /\ Len(ret) > 0
    /\ \E i \in 1..Len(sentences) : \A k \in 1..Len(ret) : ret[k][1] # sentences[i]

\* ------------------------------------------------------------------ C2
\* C2: the list returned by rankSentences is ordered by descending score: each
\* entry's score is at least the score of the entry after it.
C2_Descending ==
    call.name \in {"rankSentences", "rankDefault"} => \A i \in 1..Len(ret) - 1 : ret[i][2] >= ret[i + 1][2]

\* C2 witness: a ranking whose first entry is a later sentence of the corpus than
\* its second entry, with a higher score
C2_Reordered ==
    /\ call.name \in {"rankSentences", "rankDefault"}
    /\ Len(ret) >= 2
    /\ ret[1][2] > ret[2][2]
    /\ \E i, k \in 1..Len(sentences) :
           i < k /\ sentences[k] = ret[1][1] /\ sentences[i] = ret[2][1]
           /\ sentences[i] # sentences[k]

\* ------------------------------------------------------------------ C3
\* C3: rankSentences called with an empty string or with a value that is not a
\* string returns the empty list and inserts nothing into the IDF cache.
C3_RejectedQuery ==
    [][(/\ call'.name \in {"rankSentences", "rankDefault"}
        /\ (call'.query.type # "string" \/ call'.query = Str(<<>>)))
       => (ret' = <<>> /\ idfCache' = idfCache)]_vars

\* C3 witness: a call with an object as the query, on a corpus whose sentences
\* share characters with the object's string form, has returned the empty list
C3_ObjectQueryRejected ==
    /\ call.name = "rankSentences"
    /\ call.query = Obj
    /\ call.charWeight > 0
    /\ \E i \in 1..Len(sentences) : calculateCharacterSimilarity(Obj.str, sentences[i]) > 0
    /\ ret = <<>>

\* ------------------------------------------------------------------ C4
\* C4: when the query shares no stemmed token and no character, compared
\* case-insensitively, with any sentence of the corpus, rankSentences returns the
\* empty list, whatever the weights, the filler filter and the co-occurrence
\* method, 'pmi' included.
C4_UnrelatedQueryReturnsNothing ==
    (/\ call.name = "rankSentences"
     /\ call.query.type = "string"
     /\ \A i \in 1..Len(sentences) :
            /\ Range(toLowerCase(call.query.str)) \cap Range(toLowerCase(sentences[i])) = {}
            /\ Range(parseTokensStemmed(call.query, FALSE, fillerWords))
                   \cap Range(parseTokensStemmed(Str(sentences[i]), FALSE, fillerWords)) = {})
    => ret = <<>>

\* ------------------------------------------------------------------ C5
\* C5: with topN > 0 rankSentences returns the first min(topN, length) entries
\* of the full ranking; with topN = 0, or without topN, it returns every sentence
\* whose score is positive.
C5_TopNPrefix ==
    call.name = "rankSentences" =>
        \A full \in {rankSentences(idfCache, call.query, 0, call.tfidfWeight,
                                   call.charWeight, call.filterWords,
                                   call.coOccurrenceWeight, call.coOccurrenceMethod).list} :
            IF call.topN > 0
            THEN /\ Len(ret) = IF call.topN < Len(full) THEN call.topN ELSE Len(full)
                 /\ \A i \in 1..Len(ret) : ret[i] = full[i]
            ELSE /\ ret = full
                 /\ call.query.type = "string" =>
                        Len(ret) = Cardinality(
                            {i \in 1..Len(sentences) :
                                calculateCombinedSimilarity(
                                    idfCache, call.query.str, sentences[i], call.tfidfWeight,
                                    call.charWeight, call.filterWords, call.coOccurrenceWeight,
                                    call.coOccurrenceMethod).value > 0})

\* C5 witness: a call with topN = 1 on a query that two sentences match has
\* returned one entry
C5_Truncated ==
    /\ call.name = "rankSentences"
    /\ call.topN = 1
    /\ Len(ret) = 1
    /\ Len(rankSentences(idfCache, call.query, 0, call.tfidfWeight, call.charWeight,
                         call.filterWords, call.coOccurrenceWeight,
                         call.coOccurrenceMethod).list) >= 2

\* ------------------------------------------------------------------ C6
\* C6: on the corpus "The cat sat. The dog ran fast. Cats and dogs are friends."
\* the query "cat" with the default weights places "The cat sat" and "Cats and
\* dogs are friends" above "The dog ran fast", and "The cat sat" at least as high
\* as "Cats and dogs are friends".
C6_CatExample ==
    (call.name = "rankDefault" /\ call.query = Str(<<"c", "a", "t">>) /\ rawData = ExampleCorpus)
    => \E a, c \in 1..Len(ret) :
          /\ ret[a][1] = <<"T", "h", "e", " ", "c", "a", "t", " ", "s", "a", "t">>
          /\ ret[c][1] = <<"C", "a", "t", "s", " ", "a", "n", "d", " ", "d", "o", "g", "s", " ", "a", "r", "e", " ", "f", "r", "i", "e", "n", "d", "s">>
          /\ a < c
          /\ ret[a][2] >= ret[c][2]
          /\ \A b \in 1..Len(ret) :
                 ret[b][1] = <<"T", "h", "e", " ", "d", "o", "g", " ", "r", "a", "n", " ", "f", "a", "s", "t">>
                 => (b > c /\ ret[b][2] < ret[c][2])

\* C6 witness: the query "cat" has been ranked on the example corpus and all
\* three sentences are in the result
C6_CatRanked ==
    /\ call.name = "rankDefault"
    /\ call.query = Str(<<"c", "a", "t">>)
    /\ rawData = ExampleCorpus
    /\ Len(ret) = 3

\* ------------------------------------------------------------------ C7
\* C7: stem("running") is "run": the doubled consonant left by removing "ing"
\* is reduced to one.
C7_RunningStemsToRun ==
    (call.name = "stem" /\ call.token = Str(<<"r", "u", "n", "n", "i", "n", "g">>)) => ret = Str(<<"r", "u", "n">>)

\* ------------------------------------------------------------------ C8
\* C8: for a word of fewer than 3 characters stem returns the lowercased word;
\* the empty string and undefined are returned unchanged.
C8_ShortWords ==
    call.name = "stem" =>
        /\ (call.token.type = "string" /\ Len(call.token.str) < 3)
               => ret = Str([i \in 1..Len(call.token.str) |-> toLowerChar(call.token.str[i])])
        /\ call.token \in {Str(<<>>), Undefined} => ret = call.token

\* C8 witness: stem has returned a word of two characters in another case than
\* it was given
C8_ShortWordLowercased ==
    /\ call.name = "stem"
    /\ call.token.type = "string"
    /\ Len(call.token.str) = 2
    /\ ret # call.token

C10_SelfSimilarityIsOne ==
    (/\ call.name = "calculateTFIDFSimilarity"
     /\ call.sentence1 = call.sentence2
     /\ call.sentence1 # <<>>)
    => ret = Scale

\* C10 as amended: for a sentence s that still has a token after stemming and,
\* when filterFillers is set, after the filler filter, on a model whose corpus
\* has at least one sentence, calculateTFIDFSimilarity(s, s, filterFillers) is 1.
C10_SelfSimilarityWithTokens ==
    (/\ call.name = "calculateTFIDFSimilarity"
     /\ call.sentence1 = call.sentence2
     /\ parseTokensStemmed(Str(call.sentence1), call.filterFillers, fillerWords) # <<>>
     /\ corpusDocs # <<>>)
    => ret = Scale

\* C10 witness: a sentence of two words, one of them a filler word, has been
\* compared with itself under the filler filter
C10_FilteredSelfSimilarity ==
    /\ call.name = "calculateTFIDFSimilarity"
    /\ call.sentence1 = call.sentence2
    /\ call.filterFillers
    /\ Len(parseTokensStemmed(Str(call.sentence1), FALSE, fillerWords)) = 2
    /\ Len(parseTokensStemmed(Str(call.sentence1), TRUE, fillerWords)) = 1
    /\ ret = Scale

C12_MatrixSymmetric ==
    \A a \in DOMAIN coOccurrenceMatrix : \A b \in DOMAIN coOccurrenceMatrix[a] :
        /\ b \in DOMAIN coOccurrenceMatrix
        /\ a \in DOMAIN coOccurrenceMatrix[b]
        /\ coOccurrenceMatrix[b][a] = coOccurrenceMatrix[a][b]

\* C12 witness: after a call, a matrix in which one pair of tokens has been
\* counted in two sentences and another pair in one
C12_PairCountedTwice ==
    /\ call.name = "return"
    /\ \E a \in DOMAIN coOccurrenceMatrix : \E b, c \in DOMAIN coOccurrenceMatrix[a] :
           /\ coOccurrenceMatrix[a][b] = 2
           /\ coOccurrenceMatrix[b][a] = 2
           /\ coOccurrenceMatrix[a][c] = 1

\* ------------------------------------------------------------------ C13
\* C13: after construction no operation (rankSentences, the calculate...Similarity
\* methods, getIDF, getTokenStats, getTopCoOccurrences,
\* findMostCommonTokenFromQueryNgrams) changes tokens, sentences, fillerWords,
\* filteredTokens, corpusDocs, stemmedTokens or the co-occurrence matrix; the
\* IDF cache is the only state that can change.
C13_IndexUnchanged ==
    [][<<tokens, sentences, fillerWords, filteredTokens, corpusDocs, stemmedTokens,
         coOccurrenceMatrix>>'
       = <<tokens, sentences, fillerWords, filteredTokens, corpusDocs, stemmedTokens,
           coOccurrenceMatrix>>]_vars

\* C13 witness: getTopCoOccurrences has returned entries of a row of the matrix,
\* on a model whose IDF cache has got a token outside the corpus by an earlier
\* call, and every field is still what the constructor made of the corpus text
C13_CacheGrewIndexKept ==
    /\ call.name = "getTopCoOccurrences"
    /\ Len(ret) > 0
    /\ Len(ret) < Cardinality(DOMAIN coOccurrenceMatrix[stem(toLowerCase(call.word))])
    /\ \E token \in DOMAIN idfCache : token \notin Range(stemmedTokens)
    /\ tokens = parseTokens(rawData)
    /\ sentences = parseSentences(rawData)
    /\ stemmedTokens = parseTokensStemmed(rawData, FALSE, {})
    /\ coOccurrenceMatrix = buildCoOccurrenceMatrix(corpusDocs)

\* ------------------------------------------------------------------ C14
\* C14: the IDF cache only grows and is consistent: a key once in the cache is
\* never removed and its value never changes, and the value cached for a token t
\* is IDF(t, corpusDocs), whether the entry was seeded at construction or
\* inserted by a later look-up.
C14_CacheAppendOnlyConsistent ==
    /\ [](\A t \in DOMAIN idfCache : idfCache[t] = calculateIDF(t, corpusDocs))
    /\ [][\A t \in DOMAIN idfCache : t \in DOMAIN idfCache' /\ idfCache'[t] = idfCache[t]]_vars

\* C14 witness: getIDF has returned the cached value of a token outside the
\* corpus, on a cache that holds the seeded tokens of a corpus and a second
\* token inserted by an earlier call
C14_LazyEntriesKept ==
    /\ call.name = "getIDF"
    /\ call.token \notin Range(stemmedTokens)
    /\ call.token \in DOMAIN idfCache
    /\ ret = idfCache[call.token]
    /\ stemmedTokens # <<>>
    /\ Range(stemmedTokens) \subseteq DOMAIN idfCache
    /\ \E t \in DOMAIN idfCache : t \notin Range(stemmedTokens) /\ t # call.token

\* ------------------------------------------------------------------ C15
\* C15: when ./fillers.json cannot be read or parsed (it is missing, it is no
\* valid JSON, or its content is no list of strings), construction completes,
\* fillerWords is the empty set and filterTokens returns its input unchanged.
C15_UnusableFillersFilterNothing ==
    (\/ ~fillersFile.ok
     \/ fillersFile.json.type # "array"
     \/ \E i \in 1..Len(fillersFile.json.items) : fillersFile.json.items[i].type # "string")
    => /\ fillerWords = {}
       /\ filteredTokens = tokens
       /\ tokens = parseTokens(rawData)
       /\ call.name = "filterTokens" => ret = call.tokens
       /\ call.name = "getFilteredTokens" => ret = parseTokens(call.text)

\* C15 witness: on a model constructed with a fillers.json that lists a word of
\* the corpus and a number, filterTokens has returned an array with that word
C15_MixedListFiltersNothing ==
    /\ fillersFile.ok
    /\ fillersFile.json.type = "array"
    /\ \E i, k \in 1..Len(fillersFile.json.items) :
           /\ fillersFile.json.items[i].type = "string"
           /\ fillersFile.json.items[k].type # "string"
           /\ call.name = "filterTokens"
           /\ \E n \in 1..Len(ret) : toLowerCase(ret[n]) = toLowerCase(fillersFile.json.items[i].str)
           /\ toLowerCase(fillersFile.json.items[i].str) \in Range(tokens)

\* ------------------------------------------------------------------ C16
\* C16: calculateCoOccurrenceScore returns exactly 1 whenever its two words have
\* the same stem, with 'jaccard' and with 'pmi', whether or not the stem occurs
\* in the corpus: the Jaccard and PMI formulas are not evaluated.
C16_SameStemScoresOne ==
    (/\ call.name = "calculateCoOccurrenceScore"
     /\ stem(toLowerCase(call.word1)) = stem(toLowerCase(call.word2)))
    => ret = Scale

\* C16 witness: two different words with one stem that no sentence of a
\* non-empty corpus holds, for which the Jaccard union is empty, have been
\* scored under 'pmi'
C16_SameStemOutsideCorpus ==
    /\ call.name = "calculateCoOccurrenceScore"
    /\ call.method = "pmi"
    /\ toLowerCase(call.word1) # toLowerCase(call.word2)
    /\ stem(toLowerCase(call.word1)) = stem(toLowerCase(call.word2))
    /\ corpusDocs # <<>>
    /\ sentencesWith(stem(toLowerCase(call.word1))) = {}
    /\ jaccardScore(stem(toLowerCase(call.word1)), stem(toLowerCase(call.word2))) = 0
    /\ ret = Scale

\* ------------------------------------------------------------------ C17
\* C17: for a fixed non-empty list of N documents, calculateIDF does not
\* increase with the document frequency df; for N > 1 a token that is in every
\* document has a strictly lower IDF than a token that is in exactly one; df
\* counts the documents that hold the token, so several occurrences in one
\* document count once.
C17_IdfFallsWithDocumentFrequency ==
    (call.name = "calculateIDF" /\ call.documents # <<>>) =>
        LET df(t) == Cardinality({i \in 1..Len(call.documents) :
                         \E k \in 1..Len(call.documents[i]) : call.documents[i][k] = t}) IN
        /\ \A t \in IdfTokens :
               /\ df(t) >= df(call.token) => calculateIDF(t, call.documents) <= ret
               /\ df(t) = df(call.token) => calculateIDF(t, call.documents) = ret
               /\ (Len(call.documents) > 1 /\ df(call.token) = 1
                      /\ df(t) = Len(call.documents))
                  => calculateIDF(t, call.documents) < ret
        /\ ret = calculateIDF(call.token, [i \in 1..Len(call.documents) |->
                                              unique(call.documents[i])])

\* C17 witness: the IDF of a token that is twice in one of three documents and
\* in no other has been calculated, another token being in all three
C17_TwiceInOneDocument ==
    /\ call.name = "calculateIDF"
    /\ Len(call.documents) = 3
    /\ \E i \in 1..3 :
           /\ count(call.token, call.documents[i]) = 2
           /\ \A k \in (1..3) \ {i} : call.token \notin Range(call.documents[k])
    /\ \E t \in IdfTokens : \A k \in 1..3 : t \in Range(call.documents[k])
    /\ ret > IdfScale

C19_SentencesHoldNoDelimiter ==
    rawData.type = "string" =>
        /\ \A i \in 1..Len(sentences) :
               /\ \A k \in 1..Len(sentences[i]) :
                      sentences[i][k] \notin {".", "!", "?", ",", "\"", "'", ":", ";", "\n"}
               /\ sentences[i] # <<>>
               /\ ~isWhitespace(sentences[i][1])
               /\ ~isWhitespace(sentences[i][Len(sentences[i])])
        /\ SelectSeq(flatten(sentences),
                     LAMBDA c : c \notin {".", "!", "?", ",", "\"", "'", ":", ";", "\n", " "})
           = SelectSeq(rawData.str,
                       LAMBDA c : c \notin {".", "!", "?", ",", "\"", "'", ":", ";", "\n", " "})

\* ------------------------------------------------------------------ C20
\* C20: for two words whose stems differ and occur together in at least one
\* sentence of the corpus, calculateCoOccurrenceScore(word1, word2, 'jaccard')
\* is |S1 \cap S2| / |S1 \cup S2|, S1 and S2 being the sets of the sentences
\* whose document holds stem(word1) and stem(word2); it is 0 only when the two
\* stems are never in one sentence.  The same holds for the stemmed words that
\* calculateCoOccurrenceSimilarity passes in, which are tokens of documents.
C20_JaccardOfSentenceSets ==
    (call.name = "calculateCoOccurrenceScore" /\ call.method = "jaccard") =>
        /\ \A S1 \in {sentencesWith(stem(toLowerCase(call.word1)))},
              S2 \in {sentencesWith(stem(toLowerCase(call.word2)))} :
               (stem(toLowerCase(call.word1)) # stem(toLowerCase(call.word2)))
               => /\ S1 \cap S2 # {}
                     => ret = (Cardinality(S1 \cap S2) * Scale) \div Cardinality(S1 \cup S2)
                  /\ ret = 0 => S1 \cap S2 = {}
        /\ \A S1 \in {sentencesWith(call.word1)}, S2 \in {sentencesWith(call.word2)} :
               (call.word1 # call.word2 /\ S1 \cap S2 # {})
               => ret = (Cardinality(S1 \cap S2) * Scale) \div Cardinality(S1 \cup S2)

\* ------------------------------------------------------------------ C21
\* C21: for a word of at least 3 characters that is no irregular form, stem
\* strips the first suffix of longSuffixes, in list order, that the word ends
\* with and that leaves at least 2 characters; a suffix that leaves fewer is
\* passed over.  When several listed suffixes qualify, the one stripped is the
\* longest of them.  (The residual then goes through the e-dropping and the
\* consonant-doubling rule of the loop body.)
C21_FirstSuffixIsLongest ==
    (/\ call.name = "stem"
     /\ call.token.type = "string"
     /\ Len(call.token.str) >= 3
     /\ toLowerCase(call.token.str) \notin {<<"w", "a", "s">>, <<"i", "s">>, <<"a", "r", "e">>, <<"h", "a", "s">>, <<"h", "a", "d">>, <<"h", "a", "v", "e">>})
    => \A w \in {toLowerCase(call.token.str)} :
        \A qualifying \in {{i \in 1..Len(longSuffixes) :
                               /\ Len(w) - Len(longSuffixes[i]) >= 2
                               /\ SubSeq(w, Len(w) - Len(longSuffixes[i]) + 1, Len(w)) = longSuffixes[i]}} :
            qualifying # {} =>
                \E i \in qualifying :
                    /\ \A k \in qualifying : i <= k
                    /\ \A k \in qualifying : Len(longSuffixes[i]) >= Len(longSuffixes[k])
                    /\ ret = Str(stemAfterSuffix(longSuffixes[i], SubSeq(w, 1, Len(w) - Len(longSuffixes[i]))))

\* C21 witness: stem("Sization") has passed over "ization", which leaves one
\* character, and of "ation" and "tion" has stripped "ation"
C21_ShortResidualPassedOver ==
    /\ call.name = "stem"
    /\ call.token = Str(<<"S", "i", "z", "a", "t", "i", "o", "n">>)
    /\ ret = Str(<<"s", "i", "z">>)

\* ------------------------------------------------------------------ C22
\* C22: calculateCombinedSimilarity returns weightedSum / totalWeight for every
\* weight configuration whose totalWeight is not 0, and 0 when totalWeight is 0,
\* where weightedSum = tfidf*tfidfWeight + char*charWeight and totalWeight =
\* tfidfWeight + charWeight, plus the co-occurrence term and its weight exactly
\* when coOccurrenceWeight > 0.
C22_DividesUnlessTotalIsZero ==
    call.name = "calculateCombinedSimilarity" =>
        LET withCoOccurrence == call.coOccurrenceWeight > 0
            tfidf == calculateTFIDFSimilarity(idfCache, call.sentence1, call.sentence2, call.filterFillers).value
            char == calculateCharacterSimilarity(call.sentence1, call.sentence2)
            coOcc == calculateCoOccurrenceSimilarity(call.sentence1, call.sentence2, call.filterFillers, call.coOccurrenceMethod)
            expected(weightedSum, totalWeight) ==
                ret = IF totalWeight # 0 THEN (weightedSum * Scale) \div totalWeight ELSE 0 IN
        IF withCoOccurrence
        THEN expected(tfidf * call.tfidfWeight + char * call.charWeight + coOcc * call.coOccurrenceWeight,
                      call.tfidfWeight + call.charWeight + call.coOccurrenceWeight)
        ELSE expected(tfidf * call.tfidfWeight + char * call.charWeight,
                      call.tfidfWeight + call.charWeight)

\* C22, amended: calculateCombinedSimilarity returns weightedSum / totalWeight
\* when totalWeight is above 0 and 0 when totalWeight is 0 or below, with
\* weightedSum and totalWeight as in C22: the co-occurrence term and its weight
\* are in them exactly when coOccurrenceWeight > 0.
C22_DividesWhenTotalIsPositive ==
    call.name = "calculateCombinedSimilarity" =>
        LET withCoOccurrence == call.coOccurrenceWeight > 0
            tfidf == calculateTFIDFSimilarity(idfCache, call.sentence1, call.sentence2, call.filterFillers).value
            char == calculateCharacterSimilarity(call.sentence1, call.sentence2)
            coOcc == calculateCoOccurrenceSimilarity(call.sentence1, call.sentence2, call.filterFillers, call.coOccurrenceMethod)
            expected(weightedSum, totalWeight) ==
                ret = IF totalWeight > 0 THEN (weightedSum * Scale) \div totalWeight ELSE 0 IN
        IF withCoOccurrence
        THEN expected(tfidf * call.tfidfWeight + char * call.charWeight + coOcc * call.coOccurrenceWeight,
                      call.tfidfWeight + call.charWeight + call.coOccurrenceWeight)
        ELSE expected(tfidf * call.tfidfWeight + char * call.charWeight,
                      call.tfidfWeight + call.charWeight)

\* C22 witness: with a total weight below 0 and a weighted sum that is not 0,
\* calculateCombinedSimilarity has returned 0
C22_NegativeTotalGivesZero ==
    /\ call.name = "calculateCombinedSimilarity"
    /\ call.tfidfWeight + call.charWeight < 0
    /\ call.coOccurrenceWeight = 0
    /\ calculateCharacterSimilarity(call.sentence1, call.sentence2) * call.charWeight
           + calculateTFIDFSimilarity(idfCache, call.sentence1, call.sentence2, call.filterFillers).value * call.tfidfWeight # 0
    /\ ret = 0

\* ------------------------------------------------------------------ C23
\* C23: after construction, for distinct stemmed tokens a and b the entry
\* matrix[a][b] is the number of documents (sentences) that hold both a and b,
\* a document counting once however often the tokens repeat in it; the entry
\* is absent when that number is 0, and no token has an entry for itself.
C23_EntriesCountDocuments ==
    \A all \in {Range(stemmedTokens) \cup DOMAIN coOccurrenceMatrix
                    \cup UNION {Range(corpusDocs[d]) : d \in 1..Len(corpusDocs)}
                    \cup UNION {DOMAIN coOccurrenceMatrix[a] : a \in DOMAIN coOccurrenceMatrix}} :
        \A a \in all, b \in all :
            \A n \in {Cardinality({d \in 1..Len(corpusDocs) :
                                       a \in Range(corpusDocs[d]) /\ b \in Range(corpusDocs[d])})} :
                \A present \in {(a \in DOMAIN coOccurrenceMatrix) /\ (b \in DOMAIN coOccurrenceMatrix[a])} :
                    /\ (a # b /\ n = 0) => ~present
                    /\ (a # b /\ n > 0) => (present /\ coOccurrenceMatrix[a][b] = n)
                    /\ a = b => ~present

\* C23 witness: a constructed model with a document that holds a token twice
\* together with another token, the pair counted once
C23_RepeatedTokenCountedOnce ==
    \E d \in 1..Len(corpusDocs) : \E a, b \in Range(corpusDocs[d]) :
        /\ a # b
        /\ count(a, corpusDocs[d]) = 2
        /\ coOccurrenceMatrix[a][b] = 1
        /\ b \in Range(corpusDocs[Len(corpusDocs)])
        /\ a \notin Range(corpusDocs[Len(corpusDocs)])

\* ------------------------------------------------------------------ C24
\* C24: findMostCommonTokenFromQueryNgrams returns the empty list when the query
\* has fewer than n stemmed tokens; otherwise its result holds no token of the
\* query's stemmed tokens, has at most topN entries and is ordered by count
\* descending, each count being the number of pairs of a query window and a
\* corpus window equal to it whose corpus window holds the token.
C24_NgramResultShape ==
    (call.name = "findMostCommonTokenFromQueryNgrams" /\ call.query.type = "string") =>
        \A n \in {call.ngramSize} :
        \A queryTokens \in {parseTokensStemmed(call.query, call.filterFillers, fillerWords)} :
            IF Len(queryTokens) < n THEN ret = <<>>
            ELSE \A hits \in {{h \in (1..Len(queryTokens) - n + 1) \X (1..Len(stemmedTokens) - n + 1) :
                                   SubSeq(queryTokens, h[1], h[1] + n - 1)
                                       = SubSeq(stemmedTokens, h[2], h[2] + n - 1)}} :
                     /\ \A k \in 1..Len(ret) : ret[k][1] \notin Range(queryTokens)
                     /\ Len(ret) <= call.topN
                     /\ \A k \in 1..Len(ret) - 1 : ret[k][2] >= ret[k + 1][2]
                     /\ \A k \in 1..Len(ret) :
                            ret[k][2] = Cardinality({h \in hits :
                                            ret[k][1] \in Range(SubSeq(stemmedTokens, h[2], h[2] + n - 1))})

\* C24 witness: a call with single tokens as windows, a query of three tokens
\* of which two are in the corpus, more than once
C24_UnigramsOfThreeTokens ==
    /\ call.name = "findMostCommonTokenFromQueryNgrams"
    /\ call.query = Str(<<"t", "h", "e", " ", "c", "a", "t", " ", "c", "a", "t">>)
    /\ call.ngramSize = 1
    /\ call.topN = 2
    /\ count(<<"c", "a", "t">>, stemmedTokens) = 2
    /\ count(<<"d", "o", "g">>, stemmedTokens) = 2
    /\ ret = <<>>

\* ------------------------------------------------------------------ C27
\* C27: for every corpus, every query and every n-gram size n >= 1,
\* findMostCommonTokenFromQueryNgrams returns the empty list: a corpus window
\* is counted only when all n of its slots equal those of the query window, so
\* every counted token is a token of the query and is removed.
C27_NgramResultAlwaysEmpty ==
    (call.name = "findMostCommonTokenFromQueryNgrams" /\ call.ngramSize >= 1) =>
        /\ ret = <<>>
        /\ call.query.type = "string" =>
               \A queryTokens \in {parseTokensStemmed(call.query, call.filterFillers, fillerWords)} :
                   Range(countedTokens(windows(queryTokens, call.ngramSize),
                                       windows(stemmedTokens, call.ngramSize)))
                       \subseteq Range(queryTokens)

\* C27 witness: a call with windows of two tokens of which one is found in the
\* corpus, next to tokens that are not in the query
C27_BigramFoundNothingReturned ==
    /\ call.name = "findMostCommonTokenFromQueryNgrams"
    /\ call.ngramSize = 2
    /\ call.topN > 0
    /\ call.query.type = "string"
    /\ \A queryTokens \in {parseTokensStemmed(call.query, call.filterFillers, fillerWords)} :
           /\ countedTokens(windows(queryTokens, 2), windows(stemmedTokens, 2)) # <<>>
           /\ ~(Range(stemmedTokens) \subseteq Range(queryTokens))
    /\ ret = <<>>

\* ------------------------------------------------------------------ C25
\* C25: the arithmetic edge cases return 0: calculateIDF for an empty document
\* list, calculateTF for an empty word list, and calculateTFIDFSimilarity when
\* either sentence has no tokens (after the filler filter, if asked for) or when
\* either TF-IDF vector has magnitude 0, which is when every product of a term
\* frequency and an IDF is 0.
C25_EdgeCasesReturnZero ==
    /\ (call.name = "calculateIDF" /\ call.documents = <<>>) => ret = 0
    /\ (call.name = "calculateTF" /\ call.wordList = <<>>) => ret = 0
    /\ call.name = "calculateTFIDFSimilarity" =>
           \A words1 \in {parseTokensStemmed(Str(call.sentence1), call.filterFillers, fillerWords)},
              words2 \in {parseTokensStemmed(Str(call.sentence2), call.filterFillers, fillerWords)} :
               (\/ words1 = <<>>
                \/ words2 = <<>>
                \/ \A token \in Range(words1) :
                       count(token, words1) * getIDF(idfCache, token).value = 0
                \/ \A token \in Range(words2) :
                       count(token, words2) * getIDF(idfCache, token).value = 0)
               => ret = 0

\* C25 witness: on a model with an empty corpus a sentence of two words has
\* been compared with itself, both vectors have magnitude 0, the result is 0
C25_ZeroMagnitudeOnEmptyCorpus ==
    /\ call.name = "calculateTFIDFSimilarity"
    /\ corpusDocs = <<>>
    /\ call.sentence1 = call.sentence2
    /\ Len(parseTokensStemmed(Str(call.sentence1), call.filterFillers, fillerWords)) = 2
    /\ ret = 0

\* ------------------------------------------------------------------ C26
\* C26: parseTokens, parseSentences and parseTokensStemmed return the empty list
\* for a text that is empty or no string; a model constructed from such a
\* corpus text has empty tokens, sentences, corpusDocs, stemmedTokens, IDF cache
\* and co-occurrence matrix, and every call of rankSentences and of
\* findMostCommonTokenFromQueryNgrams on it returns the empty list.
C26_MalformedTextGivesEmpty ==
    /\ (/\ call.name \in {"parseTokens", "parseSentences", "parseTokensStemmed"}
        /\ (call.text.type # "string" \/ call.text.str = <<>>))
       => ret = <<>>
    /\ (rawData.type # "string" \/ rawData.str = <<>>)
       => /\ tokens = <<>>
          /\ sentences = <<>>
          /\ corpusDocs = <<>>
          /\ stemmedTokens = <<>>
          /\ DOMAIN idfCache = {}
          /\ DOMAIN coOccurrenceMatrix = {}
          /\ call.name \in {"rankSentences", "findMostCommonTokenFromQueryNgrams"}
                 => ret = <<>>

\* C26 witness: a model constructed from a number has been asked to rank a
\* query that is a word, with the co-occurrence term on, and has returned []
C26_NumberCorpusRanked ==
    /\ rawData = Five
    /\ call.name = "rankSentences"
    /\ call.query = Str(<<"c", "a", "t">>)
    /\ call.coOccurrenceWeight > 0
    /\ ret = <<>>
    /\ sentences = <<>>

\* ------------------------------------------------------------------ C28
\* C28: the result of rankSentences depends on the corpus, the filler set and
\* the arguments of the call only: after any sequence of rankSentences, getIDF
\* and getTokenStats calls, a rankSentences call returns the list it returns on
\* the model as constructed, whose IDF cache holds the tokens of the corpus and
\* nothing else.  Any two histories therefore give the same list.
C28_RankingIgnoresHistory ==
    call.name = "rankSentences" =>
        ret = rankSentences(precomputeIDF(stemmedTokens, corpusDocs), call.query, call.topN,
                            call.tfidfWeight, call.charWeight, call.filterWords,
                            call.coOccurrenceWeight, call.coOccurrenceMethod).list

\* C28 witness: a query with a token outside the corpus has been ranked, with a
\* result, on a model whose cache holds a token outside the corpus that is not
\* of this query, put there by an earlier call
C28_RankedAfterLazyInsert ==
    /\ call.name = "rankSentences"
    /\ call.query = Str(<<"z", "z", " ", "d", "o", "g">>)
    /\ ret # <<>>
    /\ <<"z", "z">> \in DOMAIN idfCache
    /\ <<"h", "o", "r">> \in DOMAIN idfCache

\* ------------------------------------------------------------------ C29
\* C29: after construction corpusDocs is as long as sentences, corpusDocs[i] is
\* the stemmed tokens of sentences[i], and the documents of corpusDocs joined in
\* order are stemmedTokens: no token of the corpus spans two sentences or is
\* outside every sentence.  Every token the constructor put in the IDF cache is
\* therefore in at least one document.
C29_DocumentsPartitionTokens ==
    /\ Len(corpusDocs) = Len(sentences)
    /\ \A i \in 1..Len(sentences) :
           corpusDocs[i] = parseTokensStemmed(Str(sentences[i]), FALSE, fillerWords)
    /\ flatten(corpusDocs) = stemmedTokens
    /\ call.name = "new" => DOMAIN idfCache = Range(stemmedTokens)
    /\ \A token \in Range(stemmedTokens) :
           /\ token \in DOMAIN idfCache
           /\ \E d \in 1..Len(corpusDocs) : token \in Range(corpusDocs[d])

\* C29 witness: a model of two sentences with one token each, one of the
\* sentences holding an apostrophe
C29_TwoSentencesWithApostrophe ==
    /\ call.name = "new"
    /\ Len(sentences) = 2
    /\ Len(corpusDocs[1]) = 1
    /\ Len(corpusDocs[2]) = 1
    /\ Len(stemmedTokens) = 2
    /\ \E i \in 1..2 : \E k \in 1..Len(sentences[i]) : sentences[i][k] = "'"

\* ------------------------------------------------------------------ C30
\* C30: for every non-empty word w, stem(w) is a non-empty string no longer
\* than w, made of characters of the lowercased w, except for the fixed output
\* "hav" and the "y" that replaces "ies"; stem never returns the empty string.
C30_StemNonEmptyNoLonger ==
    (call.name = "stem" /\ call.token.type = "string" /\ call.token.str # <<>>) =>
        \A w \in {call.token.str}, lower \in {toLowerCase(call.token.str)} :
            /\ ret.type = "string"
            /\ ret.str # <<>>
            /\ Len(ret.str) <= Len(w)
            /\ \/ ret.str = <<"h", "a", "v">>
               \/ Range(ret.str) \subseteq Range(lower)
               \/ /\ ret.str[Len(ret.str)] = "y"
                  /\ Len(lower) > 4
                  /\ SubSeq(lower, Len(lower) - 2, Len(lower)) = <<"i", "e", "s">>
                  /\ Range(SubSeq(ret.str, 1, Len(ret.str) - 1)) \subseteq Range(lower)

\* C30, amended: for every non-empty word w, stem(w) is a non-empty string no
\* longer than the lowercased w, which has one code unit more than w for each
\* U+0130 in w and the length of w otherwise; stem(w) is made of characters of
\* the lowercased w, except for the fixed output "hav" and the "y" that
\* replaces "ies".
C30_StemNonEmptyNoLongerThanLowercased ==
    (call.name = "stem" /\ call.token.type = "string" /\ call.token.str # <<>>) =>
        \A w \in {call.token.str}, lower \in {toLowerCase(call.token.str)} :
            /\ ret.type = "string"
            /\ ret.str # <<>>
            /\ Len(ret.str) <= Len(lower)
            /\ Len(lower) = Len(w) + Cardinality({i \in 1..Len(w) : w[i] = DottedCapitalI})
            /\ \/ ret.str = <<"h", "a", "v">>
               \/ Range(ret.str) \subseteq Range(lower)
               \/ /\ ret.str[Len(ret.str)] = "y"
                  /\ Len(lower) > 4
                  /\ SubSeq(lower, Len(lower) - 2, Len(lower)) = <<"i", "e", "s">>
                  /\ Range(SubSeq(ret.str, 1, Len(ret.str) - 1)) \subseteq Range(lower)

\* C30 witness: stem has returned a word of four code units for a word of three
C30_DottedWordGrew ==
    /\ call.name = "stem"
    /\ call.token = Str(<<DottedCapitalI, "d", "d">>)
    /\ ret = Str(<<"i", CombiningDot, "d", "d">>)
====
